---------------------------- MODULE Spec2Model ----------------------------
(***************************************************************************)
(* A model of Poco::Net::SocketImpl (Net/src/SocketImpl.cpp): the socket   *)
(* handle that owns a native descriptor, its lifecycle (construct, init,   *)
(* adopt, reset, close, destroy), blocking-mode toggling, the readiness    *)
(* poller with its interrupt-driven re-arming, connection establishment    *)
(* with a timeout, and the send/receive family.                            *)
(*                                                                         *)
(* The operating system is the environment: it hands out descriptors,     *)
(* answers syscalls with a result drawn from the results that syscall can  *)
(* give, and answers EBADF for a descriptor that is not open.  A wait in   *)
(* the kernel returns no later than the timeout it was given.  Time is     *)
(* counted in microseconds, the unit of Poco::Timespan.                    *)
(***************************************************************************)
EXTENDS Integers, Sequences, FiniteSets, TLC

(***************************************************************************)
(* Bounds of the model.                                                    *)
(***************************************************************************)
NumHandles == 2          \* SocketImpl objects that can be constructed
MaxFd == 2               \* descriptor values the OS can hand out: 1..MaxFd
Quantum == 500           \* granularity of the timeouts and waits tried (us)
MaxQuanta == 3           \* largest timeout tried, in quanta
MaxIntr == 2             \* interrupted syscalls (EINTR) per call
MaxFile == 3             \* largest file, offset and count tried (bytes)
BufferSize == 2          \* sendFileBlockwise's buffer (8192 bytes), scaled
MaxBuf == 2              \* largest Poco::Buffer and available byte count tried
SizeBits == 16           \* width of std::size_t, scaled

(***************************************************************************)
(* Program constants.                                                      *)
(***************************************************************************)
POCO_INVALID_SOCKET == 0 - 1     \* the "unset" sentinel of _sockfd
MILLISECONDS == 1000             \* Timespan::MILLISECONDS, us per ms

Handles == 1..NumHandles
Fds == 1..MaxFd
TimeoutValues == {q * Quantum : q \in 0..MaxQuanta}

Platforms == {"unix", "windows"}            \* POCO_OS_FAMILY_UNIX / _WINDOWS
PollStrategies == {"epoll", "poll", "select"}

NoExc == "none"
Pending == "pending"

VARIABLES
    platform,          \* build target: POCO_OS_FAMILY_*
    pollStrategy,      \* build target: POCO_HAVE_FD_EPOLL / _POLL / neither
    brokenTimeouts,    \* build target: POCO_BROKEN_TIMEOUTS is defined
    isBrokenTimeout,   \* _isBrokenTimeout, fixed at construction
    haveSendfile,      \* build target: POCO_HAVE_SENDFILE is defined
    isSecure,          \* per handle: what secure() answers for its class
    hstate,            \* per handle: "none" (not constructed), "live", "dead"
    sockfd,            \* _sockfd
    blocking,          \* _blocking
    sndTimeout,        \* _sndTimeout
    recvTimeout,       \* _recvTimeout
    osOpen,            \* descriptors open at the OS
    osNonblock,        \* per descriptor: O_NONBLOCK / FIONBIO set at the OS
    osTimeo,           \* per descriptor: SO_SNDTIMEO / SO_RCVTIMEO at the OS
    held,              \* history: descriptors a handle took and has not closed
    orphans,           \* history: descriptors reset() overwrote while held
    closedOnce,        \* history: per handle, close() has closed a descriptor
    overClosed,        \* history: a handle closed a descriptor it did not hold
    callerError,       \* history: a caller handed over an already-owned descriptor
    pc,                \* position of the calling thread
    call,              \* the call in progress
    last               \* the last call: operation, handle, outcome, OS calls

buildVars == <<platform, pollStrategy, brokenTimeouts, isBrokenTimeout,
               haveSendfile, isSecure>>
handleVars == <<hstate, sockfd, blocking, sndTimeout, recvTimeout>>
osVars == <<osOpen, osNonblock, osTimeo>>
histVars == <<held, orphans, closedOnce, overClosed, callerError>>
vars == <<buildVars, handleVars, osVars, histVars, pc, call, last>>

(***************************************************************************)
(* The locals of a sendFile call and what it has done: the path taken      *)
(* ("native" or "blockwise"), the file's size, the offset and count it was *)
(* called with (offset0, count0), and the locals of the path's loop.       *)
(* Native: offset, count (still to send) and sent.  Blockwise: offset is   *)
(* the stream's read position, count the requested count, sent is len,     *)
(* bufferSize, n the bytes in the buffer, good the stream's state.  wire   *)
(* is the sequence of file positions (1..size) put on the socket, zero     *)
(* whether the zero-copy primitive's last answer was 0 bytes.  before is   *)
(* history: the path, the bytes on the socket and the total of the call    *)
(* just before, when that was a sendFile of the same file, offset and      *)
(* count on another handle that returned.                                  *)
(***************************************************************************)
NoBefore == [path |-> "none", wire |-> <<>>, rc |-> 0]

NoFile == [path |-> "none", size |-> 0, offset0 |-> 0, count0 |-> 0,
           offset |-> 0, count |-> 0, sent |-> 0, bufferSize |-> 0, n |-> 0,
           good |-> TRUE, zero |-> FALSE, tick |-> 0, wire |-> <<>>,
           before |-> NoBefore]

(***************************************************************************)
(* What a call of error(code, arg) was given as arg, and the message of    *)
(* the exception it raised: the text of its case and the argument shown.   *)
(***************************************************************************)
NoMessage == [text |-> "", shown |-> ""]

NoErr == [arg |-> "", msg |-> NoMessage]

(***************************************************************************)
(* What the environment does during a poll: the time, from the start of    *)
(* the call, at which the descriptor becomes ready for the mask (Never:    *)
(* it does not), the times at which a signal interrupts a wait in          *)
(* progress, and the code a wait fails with ("none": no wait fails).       *)
(***************************************************************************)
Never == (MaxQuanta + 1) * Quantum

NoEnv == [ready |-> Never, signals |-> <<>>, fail |-> "none"]

(***************************************************************************)
(* The caller's objects a call is handed by reference: the Poco::Buffer of *)
(* receiveBytes(buffer, flags, timeout), with its size at the call         *)
(* (size0), the byte count available() answered (avail), its size at the   *)
(* read (atRead) and its size now (size); and the SocketAddress of         *)
(* receiveFrom, "unchanged" or the "peer" the call assigned to it.         *)
(***************************************************************************)
NoBuf == [size0 |-> 0, avail |-> 0, atRead |-> 0, size |-> 0]

NoAddr == "unchanged"

(***************************************************************************)
(* The record of a call: what it was, on which handle, the handle's        *)
(* descriptor and blocking flag when it was entered, the exception it      *)
(* raised (NoExc for a normal return), its return value, the OS calls it   *)
(* issued in order, for a timed call the timeout T and the time t spent    *)
(* waiting, and what the last syscall of a transfer or of a one-syscall     *)
(* operation answered (res), for sendFile its locals (file), for error its *)
(* argument and message (err), for a poll in a given environment the       *)
(* environment (env).                                                      *)
(***************************************************************************)
Ret(op, h, exc, rc, sys) ==
    [op |-> op, h |-> h, exc |-> exc, rc |-> rc, sys |-> sys,
     fd0 |-> sockfd[h], blk0 |-> blocking[h], T |-> 0, t |-> 0,
     res |-> "none", file |-> NoFile, err |-> NoErr,
     env |-> NoEnv, buf |-> NoBuf, addr |-> NoAddr]

NoCall == [op |-> "none", h |-> 1, fd0 |-> POCO_INVALID_SOCKET, blk0 |-> TRUE,
           mode |-> {}, T |-> 0, remainingTime |-> 0, t |-> 0, nintr |-> 0,
           out |-> "none", sys |-> <<>>, file |-> NoFile, buf |-> NoBuf]

(***************************************************************************)
(* The timeout options of a descriptor at the OS, in the unit of the       *)
(* platform's option, zero on a new descriptor.                            *)
(***************************************************************************)
NoTimeo == [snd |-> 0, rcv |-> 0]

Idle == pc = "idle"
Live(h) == hstate[h] = "live"

(***************************************************************************)
(* SocketImpl::error(int, const std::string&): the exception kind a        *)
(* platform code is translated to ("none": returns without raising).       *)
(***************************************************************************)
error(code) ==
    CASE code = "ENOERR" -> NoExc
      [] code \in {"ESYSNOTREADY", "ENOTINIT", "EDESTADDRREQ", "EMSGSIZE",
                   "EPROTOTYPE", "ENOPROTOOPT", "EPROTONOSUPPORT",
                   "ESOCKTNOSUPPORT", "ENOTSUP", "EPFNOSUPPORT",
                   "EAFNOSUPPORT", "EADDRINUSE", "EADDRNOTAVAIL", "ENETDOWN",
                   "ENETUNREACH", "ENETRESET", "EISCONN", "ENOTCONN",
                   "ESHUTDOWN", "EHOSTDOWN", "EHOSTUNREACH"} -> "NetException"
      [] code = "EINVAL" -> "InvalidArgumentException"
      [] code = "ECONNABORTED" -> "ConnectionAbortedException"
      [] code = "ECONNRESET" -> "ConnectionResetException"
      [] code = "ETIMEDOUT" -> "TimeoutException"
      [] code = "ECONNREFUSED" -> "ConnectionRefusedException"
      [] OTHER -> "IOException"

(***************************************************************************)
(* The state after construction of the program: no handle exists yet, no   *)
(* descriptor is open.  The build target is any of the supported ones.     *)
(* checkIsBrokenTimeout() gives the values _isBrokenTimeout can take on a  *)
(* build: true with POCO_BROKEN_TIMEOUTS, else by the Windows version,     *)
(* else false.                                                             *)
(***************************************************************************)
checkIsBrokenTimeout ==
    IF brokenTimeouts THEN {TRUE}
    ELSE IF platform = "windows" THEN BOOLEAN      \* by the Windows version
    ELSE {FALSE}

InitTarget(P, S, B) ==
    /\ platform \in P
    /\ pollStrategy \in S
    /\ brokenTimeouts \in BOOLEAN
    /\ isBrokenTimeout \in B \cap checkIsBrokenTimeout

(***************************************************************************)
(* A build with the zero-copy primitive whose handles are plain            *)
(* SocketImpl objects: SocketImpl::secure() returns false.                 *)
(***************************************************************************)
InitBuild(P, S, B) ==
    /\ InitTarget(P, S, B)
    /\ haveSendfile = TRUE
    /\ isSecure = [h \in Handles |-> FALSE]

InitRest ==
    /\ hstate = [h \in Handles |-> "none"]
    /\ sockfd = [h \in Handles |-> POCO_INVALID_SOCKET]
    /\ blocking = [h \in Handles |-> TRUE]
    /\ sndTimeout = [h \in Handles |-> 0]
    /\ recvTimeout = [h \in Handles |-> 0]
    /\ osOpen = {}
    /\ osNonblock = [fd \in Fds |-> FALSE]
    /\ osTimeo = [fd \in Fds |-> NoTimeo]
    /\ held = [h \in Handles |-> {}]
    /\ orphans = {}
    /\ closedOnce = [h \in Handles |-> FALSE]
    /\ overClosed = FALSE
    /\ callerError = FALSE
    /\ pc = "idle"
    /\ call = NoCall
    /\ last = [op |-> "none", h |-> 1, exc |-> NoExc, rc |-> 0, sys |-> <<>>,
               fd0 |-> POCO_INVALID_SOCKET, blk0 |-> TRUE, T |-> 0, t |-> 0,
               res |-> "none", file |-> NoFile, err |-> NoErr,
               env |-> NoEnv, buf |-> NoBuf, addr |-> NoAddr]

(***************************************************************************)
(* Whether another live handle holds descriptor fd.                        *)
(***************************************************************************)
OwnedByOther(h, fd) ==
    \E g \in Handles \ {h} : Live(g) /\ sockfd[g] = fd

(***************************************************************************)
(* A descriptor produced outside the handles (by the caller's own          *)
(* ::socket or ::accept), later handed to SocketImpl(poco_socket_t),       *)
(* useFileDescriptor or reset.                                             *)
(***************************************************************************)
ExternalSocket(fd) ==
    /\ Idle
    /\ fd \notin osOpen
    /\ osOpen' = osOpen \cup {fd}
    /\ osNonblock' = [osNonblock EXCEPT ![fd] = FALSE]
    /\ osTimeo' = [osTimeo EXCEPT ![fd] = NoTimeo]
    /\ last' = [last EXCEPT !.op = "external", !.exc = NoExc, !.sys = <<>>]
    /\ UNCHANGED <<buildVars, handleVars, histVars, pc, call>>

(***************************************************************************)
(* SocketImpl::SocketImpl()                                                *)
(***************************************************************************)
Construct(h) ==
    /\ Idle
    /\ hstate[h] = "none"
    /\ hstate' = [hstate EXCEPT ![h] = "live"]
    /\ sockfd' = [sockfd EXCEPT ![h] = POCO_INVALID_SOCKET]
    /\ blocking' = [blocking EXCEPT ![h] = TRUE]
    /\ last' = Ret("SocketImpl", h, NoExc, 0, <<>>)
    /\ UNCHANGED <<buildVars, sndTimeout, recvTimeout, osVars, histVars, pc, call>>

(***************************************************************************)
(* SocketImpl::SocketImpl(poco_socket_t sockfd)                            *)
(***************************************************************************)
ConstructFd(h, fd) ==
    /\ Idle
    /\ hstate[h] = "none"
    /\ fd \in osOpen
    /\ hstate' = [hstate EXCEPT ![h] = "live"]
    /\ sockfd' = [sockfd EXCEPT ![h] = fd]
    /\ blocking' = [blocking EXCEPT ![h] = TRUE]
    /\ held' = [held EXCEPT ![h] = @ \cup {fd}]
    /\ callerError' = (callerError \/ OwnedByOther(h, fd))
    /\ last' = Ret("SocketImpl", h, NoExc, 0, <<>>)
    /\ UNCHANGED <<buildVars, sndTimeout, recvTimeout, osVars, orphans,
                   closedOnce, overClosed, pc, call>>

(***************************************************************************)
(* The body of SocketImpl::close(): the OS close and the sentinel, and     *)
(* the OS calls it issued.  poco_closesocket's result is not looked at.    *)
(* The mode and the options of the descriptor go away with it.             *)
(***************************************************************************)
CloseSys(h) == IF sockfd[h] # POCO_INVALID_SOCKET THEN <<"close">> ELSE <<>>

DoCloseKeepFd(h) ==
    IF sockfd[h] # POCO_INVALID_SOCKET
    THEN /\ osOpen' = osOpen \ {sockfd[h]}
         /\ osNonblock' = [osNonblock EXCEPT ![sockfd[h]] = FALSE]
         /\ osTimeo' = [osTimeo EXCEPT ![sockfd[h]] = NoTimeo]
         /\ closedOnce' = [closedOnce EXCEPT ![h] = TRUE]
         /\ overClosed' = (overClosed \/ sockfd[h] \notin held[h])
         /\ held' = [held EXCEPT ![h] = @ \ {sockfd[h]}]
         /\ sockfd' = sockfd
    ELSE UNCHANGED <<sockfd, osOpen, osNonblock, osTimeo, held, closedOnce,
                     overClosed>>

DoNotClose(h) ==
    UNCHANGED <<sockfd, osOpen, osNonblock, osTimeo, held, closedOnce,
                overClosed>>

DoClose(h) ==
    IF sockfd[h] # POCO_INVALID_SOCKET
    THEN /\ osOpen' = osOpen \ {sockfd[h]}
         /\ osNonblock' = [osNonblock EXCEPT ![sockfd[h]] = FALSE]
         /\ osTimeo' = [osTimeo EXCEPT ![sockfd[h]] = NoTimeo]
         /\ closedOnce' = [closedOnce EXCEPT ![h] = TRUE]
         /\ overClosed' = (overClosed \/ sockfd[h] \notin held[h])
         /\ held' = [held EXCEPT ![h] = @ \ {sockfd[h]}]
         /\ sockfd' = [sockfd EXCEPT ![h] = POCO_INVALID_SOCKET]
    ELSE UNCHANGED <<sockfd, osOpen, osNonblock, osTimeo, held, closedOnce,
                     overClosed>>

(***************************************************************************)
(* SocketImpl::close()                                                     *)
(***************************************************************************)
Close(h) ==
    /\ Idle
    /\ Live(h)
    /\ DoClose(h)
    /\ last' = Ret("close", h, NoExc, 0, CloseSys(h))
    /\ UNCHANGED <<buildVars, hstate, blocking, sndTimeout, recvTimeout,
                   orphans, callerError, pc, call>>

(***************************************************************************)
(* SocketImpl::~SocketImpl()                                               *)
(***************************************************************************)
Destroy(h) ==
    /\ Idle
    /\ Live(h)
    /\ DoClose(h)
    /\ hstate' = [hstate EXCEPT ![h] = "dead"]
    /\ last' = Ret("~SocketImpl", h, NoExc, 0, CloseSys(h))
    /\ UNCHANGED <<buildVars, blocking, sndTimeout, recvTimeout,
                   orphans, callerError, pc, call>>

(***************************************************************************)
(* n copies of one OS call.                                                *)
(***************************************************************************)
Rep(name, n) == [i \in 1..n |-> name]

(***************************************************************************)
(* SocketImpl::initSocket(af, type, proto), reached through init(af).      *)
(* sd is what ::socket answers: a descriptor not open so far, or           *)
(* POCO_INVALID_SOCKET with the error code err.  A new descriptor is in    *)
(* blocking mode.                                                          *)
(***************************************************************************)
SocketResults == (Fds \ osOpen) \cup {POCO_INVALID_SOCKET}
SocketErrors == {"EMFILE"}

InitSocketNoAssert(h, sd, err) ==
    /\ Idle
    /\ Live(h)
    /\ sd \in SocketResults
    /\ err \in SocketErrors
    /\ IF sd # POCO_INVALID_SOCKET
       THEN /\ sockfd' = [sockfd EXCEPT ![h] = sd]
            /\ osOpen' = osOpen \cup {sd}
            /\ osNonblock' = [osNonblock EXCEPT ![sd] = FALSE]
            /\ osTimeo' = [osTimeo EXCEPT ![sd] = NoTimeo]
            /\ held' = [held EXCEPT ![h] = @ \cup {sd}]
            /\ last' = Ret("initSocket", h, NoExc, 0, <<"socket">>)
       ELSE /\ sockfd' = [sockfd EXCEPT ![h] = POCO_INVALID_SOCKET]
            /\ last' = Ret("initSocket", h, error(err), 0, <<"socket">>)
            /\ UNCHANGED <<osOpen, osNonblock, osTimeo, held>>
    /\ UNCHANGED <<buildVars, hstate, blocking, sndTimeout, recvTimeout,
                   orphans, closedOnce, overClosed, callerError, pc, call>>

InitSocket(h, sd, err) ==
    /\ Idle
    /\ Live(h)
    /\ sd \in SocketResults
    /\ err \in SocketErrors
    /\ IF sockfd[h] # POCO_INVALID_SOCKET
       THEN /\ last' = Ret("initSocket", h, "AssertionViolationException", 0, <<>>)
            /\ UNCHANGED <<sockfd, osOpen, osNonblock, osTimeo, held>>
       ELSE IF sd # POCO_INVALID_SOCKET
       THEN /\ sockfd' = [sockfd EXCEPT ![h] = sd]
            /\ osOpen' = osOpen \cup {sd}
            /\ osNonblock' = [osNonblock EXCEPT ![sd] = FALSE]
            /\ osTimeo' = [osTimeo EXCEPT ![sd] = NoTimeo]
            /\ held' = [held EXCEPT ![h] = @ \cup {sd}]
            /\ last' = Ret("initSocket", h, NoExc, 0, <<"socket">>)
       ELSE /\ sockfd' = [sockfd EXCEPT ![h] = POCO_INVALID_SOCKET]
            /\ last' = Ret("initSocket", h, error(err), 0, <<"socket">>)
            /\ UNCHANGED <<osOpen, osNonblock, osTimeo, held>>
    /\ UNCHANGED <<buildVars, hstate, blocking, sndTimeout, recvTimeout,
                   orphans, closedOnce, overClosed, callerError, pc, call>>

(***************************************************************************)
(* SocketImpl::useFileDescriptor(fd)                                       *)
(***************************************************************************)
UseFileDescriptor(h, fd) ==
    /\ Idle
    /\ Live(h)
    /\ fd \in osOpen
    /\ IF sockfd[h] # POCO_INVALID_SOCKET
       THEN /\ last' = Ret("useFileDescriptor", h, "AssertionViolationException", 0, <<>>)
            /\ UNCHANGED <<sockfd, held, callerError>>
       ELSE /\ sockfd' = [sockfd EXCEPT ![h] = fd]
            /\ held' = [held EXCEPT ![h] = @ \cup {fd}]
            /\ callerError' = (callerError \/ OwnedByOther(h, fd))
            /\ last' = Ret("useFileDescriptor", h, NoExc, 0, <<>>)
    /\ UNCHANGED <<buildVars, hstate, blocking, sndTimeout, recvTimeout, osVars,
                   orphans, closedOnce, overClosed, pc, call>>

(***************************************************************************)
(* SocketImpl::reset(aSocket): aSocket is a descriptor or the sentinel     *)
(* (the default argument).  The descriptor held so far is not closed.      *)
(***************************************************************************)
Reset(h, aSocket) ==
    /\ Idle
    /\ Live(h)
    /\ aSocket \in osOpen \cup {POCO_INVALID_SOCKET}
    /\ sockfd' = [sockfd EXCEPT ![h] = aSocket]
    /\ held' = [held EXCEPT ![h] = @ \cup ({aSocket} \cap Fds)]
    /\ orphans' = orphans \cup (({sockfd[h]} \cap Fds) \ {aSocket})
    /\ callerError' = (callerError \/ OwnedByOther(h, aSocket))
    /\ last' = Ret("reset", h, NoExc, 0, <<>>)
    /\ UNCHANGED <<buildVars, hstate, blocking, sndTimeout, recvTimeout, osVars,
                   closedOnce, overClosed, pc, call>>

(***************************************************************************)
(* SocketImpl::acceptConnection(clientAddr): ::accept is re-issued while   *)
(* it is interrupted (k times), then answers sd: a new descriptor, or      *)
(* POCO_INVALID_SOCKET with the error code err.  The new descriptor goes   *)
(* to a new StreamSocketImpl, g.                                           *)
(***************************************************************************)
AcceptErrors(h) ==
    IF sockfd[h] \in osOpen THEN {"ECONNABORTED", "EMFILE"} ELSE {"EBADF"}

AcceptResults(h) ==
    IF sockfd[h] \in osOpen
    THEN (Fds \ osOpen) \cup {POCO_INVALID_SOCKET}
    ELSE {POCO_INVALID_SOCKET}

AcceptedListener(h, sd) == sockfd[h]

AcceptedDescriptor(h, sd) == sd

AcceptConnection(h, g, k, sd, err) ==
    /\ Idle
    /\ Live(h)
    /\ IF sockfd[h] = POCO_INVALID_SOCKET
       THEN /\ k = 0 /\ g = h /\ sd = POCO_INVALID_SOCKET /\ err = "EBADF"
            /\ last' = Ret("acceptConnection", h, "InvalidSocketException", 0, <<>>)
            /\ UNCHANGED <<hstate, sockfd, blocking, osVars, held>>
       ELSE /\ sd \in AcceptResults(h)
            /\ k \in (IF sockfd[h] \in osOpen THEN 0..MaxIntr ELSE {0})
            /\ IF sd # POCO_INVALID_SOCKET
               THEN /\ err = "EBADF"
                    /\ hstate[g] = "none"
                    /\ hstate' = [hstate EXCEPT ![g] = "live"]
                    /\ sockfd' = [sockfd EXCEPT ![g] = AcceptedDescriptor(h, sd)]
                    /\ blocking' = [blocking EXCEPT ![g] = TRUE]
                    /\ osOpen' = osOpen \cup {sd}
                    /\ osNonblock' = [osNonblock EXCEPT ![sd] = FALSE]
                    /\ osTimeo' = [osTimeo EXCEPT ![sd] = NoTimeo]
                    /\ held' = [held EXCEPT ![g] = @ \cup {AcceptedDescriptor(h, sd)}]
                    /\ last' = Ret("acceptConnection", h, NoExc, 0, Rep("accept", k + 1))
               ELSE /\ g = h
                    /\ err \in AcceptErrors(h)
                    /\ last' = Ret("acceptConnection", h, error(err), 0, Rep("accept", k + 1))
                    /\ UNCHANGED <<hstate, sockfd, blocking, osVars, held>>
    /\ UNCHANGED <<buildVars, sndTimeout, recvTimeout, orphans, closedOnce,
                   overClosed, callerError, pc, call>>

(***************************************************************************)
(* The lifecycle of the handles.                                           *)
(***************************************************************************)
InitLife == InitBuild({"unix"}, {"epoll"}, {FALSE}) /\ InitRest

NextLife ==
    \/ \E fd \in Fds : ExternalSocket(fd)
    \/ \E h \in Handles : Construct(h)
    \/ \E h \in Handles, fd \in Fds : ConstructFd(h, fd)
    \/ \E h \in Handles : Close(h)
    \/ \E h \in Handles : Destroy(h)
    \/ \E h \in Handles, sd \in Fds \cup {POCO_INVALID_SOCKET}, err \in SocketErrors :
            InitSocket(h, sd, err)
    \/ \E h \in Handles, fd \in Fds : UseFileDescriptor(h, fd)
    \/ \E h \in Handles, fd \in Fds \cup {POCO_INVALID_SOCKET} : Reset(h, fd)
    \/ \E h \in Handles, g \in Handles, k \in 0..MaxIntr,
          sd \in Fds \cup {POCO_INVALID_SOCKET},
          err \in {"ECONNABORTED", "EMFILE", "EBADF"} :
            AcceptConnection(h, g, k, sd, err)

SpecLife == InitLife /\ [][NextLife]_vars

(***************************************************************************)
(* SocketImpl::setBlocking(flag).  On Unix it reads the descriptor's flags *)
(* with fcntl(F_GETFL) and writes them back with fcntl(F_SETFL); elsewhere *)
(* it is one ioctl(FIONBIO).  Neither looks at _sockfd first: on a         *)
(* descriptor that is not open (the sentinel included) the OS call fails   *)
(* and its error is raised, before _blocking is assigned.                  *)
(***************************************************************************)
SetBlockingSys(ok) ==
    IF platform = "unix"
    THEN (IF ok THEN <<"fcntl", "fcntl">> ELSE <<"fcntl">>)
    ELSE <<"ioctlsocket">>

BadDescriptor == IF platform = "unix" THEN "EBADF" ELSE "ENOTSOCK"

SetBlocking(h, flag) ==
    /\ Idle
    /\ Live(h)
    /\ IF sockfd[h] \in osOpen
       THEN /\ osNonblock' = [osNonblock EXCEPT ![sockfd[h]] = ~flag]
            /\ UNCHANGED osTimeo
            /\ blocking' = [blocking EXCEPT ![h] = flag]
            /\ last' = Ret("setBlocking", h, NoExc, 0, SetBlockingSys(TRUE))
       ELSE /\ last' = Ret("setBlocking", h, error(BadDescriptor), 0,
                           SetBlockingSys(FALSE))
            /\ UNCHANGED <<osNonblock, osTimeo, blocking>>
    /\ UNCHANGED <<buildVars, hstate, sockfd, sndTimeout, recvTimeout, osOpen,
                   histVars, pc, call>>

(***************************************************************************)
(* SocketImpl::poll(timeout, mode).                                        *)
(*                                                                         *)
(* Before the wait loop come the test of _sockfd and, for the epoll        *)
(* strategy, epoll_create and epoll_ctl, either of which can fail (setup): *)
(* PollSetupSys are the OS calls issued, PollSetupExc the exception.       *)
(***************************************************************************)
SelectModes == {"SELECT_READ", "SELECT_WRITE", "SELECT_ERROR"}

PollSetups == {"ok", "epoll_create", "epoll_ctl"}

PollSetupSys(setup) ==
    IF pollStrategy # "epoll" THEN <<>>
    ELSE CASE setup = "ok" -> <<"epoll_create", "epoll_ctl">>
           [] setup = "epoll_create" -> <<"epoll_create">>
           [] OTHER -> <<"epoll_create", "epoll_ctl", "close_epoll">>

PollSetupExc(fd, setup) ==
    IF fd = POCO_INVALID_SOCKET THEN "InvalidSocketException"
    ELSE IF pollStrategy = "epoll" /\ setup = "epoll_create" THEN error("EMFILE")
    ELSE IF pollStrategy = "epoll" /\ setup = "epoll_ctl" THEN error("ENOMEM")
    ELSE NoExc

Frame(op, h, fd0, blk0, T, mode, sys) ==
    [op |-> op, h |-> h, fd0 |-> fd0, blk0 |-> blk0, mode |-> mode, T |-> T,
     remainingTime |-> T, t |-> 0, nintr |-> 0, out |-> "none", sys |-> sys,
     file |-> NoFile, buf |-> NoBuf]

Done(c, exc, rc) ==
    [op |-> c.op, h |-> c.h, exc |-> exc, rc |-> rc, sys |-> c.sys,
     fd0 |-> c.fd0, blk0 |-> c.blk0, T |-> c.T, t |-> c.t, res |-> "none",
     file |-> c.file, err |-> NoErr,
     env |-> NoEnv, buf |-> c.buf, addr |-> NoAddr]

InCall(c) == Done(c, Pending, 0)

(***************************************************************************)
(* The timeout one wait is given: epoll_wait and poll take whole           *)
(* milliseconds, Timespan::totalMilliseconds() of the remaining time       *)
(* (microseconds divided by 1000, truncated); select takes a timeval with  *)
(* the seconds and the microseconds of the remaining time.                 *)
(***************************************************************************)
WaitBudgetOf(strategy, remainingTime) ==
    IF strategy = "select"
    THEN remainingTime
    ELSE (remainingTime \div MILLISECONDS) * MILLISECONDS

WaitBudget(remainingTime) == WaitBudgetOf(pollStrategy, remainingTime)

(***************************************************************************)
(* The remaining time after an interrupted wait that lasted waited.        *)
(***************************************************************************)
RemainingSame(remainingTime, waited) == remainingTime

RemainingAfter(remainingTime, waited) ==
    IF waited < remainingTime THEN remainingTime - waited ELSE 0

WaitTimes(budget) == {w \in TimeoutValues : w <= budget} \cup {budget}

(***************************************************************************)
(* The public call of poll.                                                *)
(***************************************************************************)
PollBegin(h, T, mode, setup) ==
    /\ Idle
    /\ Live(h)
    /\ T \in TimeoutValues
    /\ setup \in (IF pollStrategy = "epoll" /\ sockfd[h] # POCO_INVALID_SOCKET
                  THEN PollSetups ELSE {"ok"})
    /\ LET exc == PollSetupExc(sockfd[h], setup)
           sys == IF sockfd[h] = POCO_INVALID_SOCKET THEN <<>> ELSE PollSetupSys(setup)
           c == Frame("poll", h, sockfd[h], blocking[h], T, mode, sys)
       IN  IF exc # NoExc
           THEN /\ last' = Done(c, exc, 0)
                /\ UNCHANGED <<pc, call>>
           ELSE /\ pc' = "poll_wait"
                /\ call' = c
                /\ last' = InCall(c)
    /\ UNCHANGED <<buildVars, handleVars, osVars, histVars>>

(***************************************************************************)
(* One wait of the loop that a signal interrupts after the time waited:    *)
(* the elapsed time is taken off the remaining time and the wait is        *)
(* issued again.                                                           *)
(***************************************************************************)
WaitSys == CASE pollStrategy = "epoll" -> "epoll_wait"
             [] pollStrategy = "poll" -> "poll"
             [] OTHER -> "select"

PollInterrupted ==
    /\ pc = "poll_wait"
    /\ call.nintr < MaxIntr
    /\ \E waited \in WaitTimes(WaitBudget(call.remainingTime)) :
        call' = [call EXCEPT
                   !.remainingTime = RemainingAfter(call.remainingTime, waited),
                   !.t = @ + waited,
                   !.nintr = @ + 1,
                   !.sys = Append(@, WaitSys)]
    /\ last' = InCall(call')
    /\ UNCHANGED <<buildVars, handleVars, osVars, histVars, pc>>

(***************************************************************************)
(* The last wait of the loop: it runs to its timeout (rc = 0), or the      *)
(* descriptor becomes ready after the time waited (rc > 0), or the wait    *)
(* fails with a code other than EINTR (rc < 0).  The polling context of    *)
(* the epoll strategy is closed.  The result is held in the frame for the  *)
(* caller: rc (1 ready, 0 not ready) and the code of a failed wait.        *)
(***************************************************************************)
PollOutcomes == {"timeout", "ready", "ENOMEM"}

PollTeardownNone == <<>>

PollTeardown == IF pollStrategy = "epoll" THEN <<"close_epoll">> ELSE <<>>

PollFinished(out) ==
    /\ pc = "poll_wait"
    /\ out \in PollOutcomes
    /\ \E waited \in WaitTimes(WaitBudget(call.remainingTime)) :
        /\ out = "timeout" => waited = WaitBudget(call.remainingTime)
        /\ out = "ENOMEM" => waited = 0
        /\ call' = [call EXCEPT
                      !.t = @ + waited,
                      !.sys = Append(@, WaitSys) \o PollTeardown,
                      !.out = out]
    /\ pc' = "poll_ret"
    /\ last' = InCall(call')
    /\ UNCHANGED <<buildVars, handleVars, osVars, histVars>>

PollExc(c) == IF c.out = "ENOMEM" THEN error("ENOMEM") ELSE NoExc

PollReady(c) == c.out = "ready"

(***************************************************************************)
(* The return of the public call of poll: rc > 0, or the raised error.     *)
(***************************************************************************)
PollReturn ==
    /\ pc = "poll_ret"
    /\ call.op = "poll"
    /\ pc' = "idle"
    /\ call' = NoCall
    /\ last' = Done(call, PollExc(call), IF PollReady(call) THEN 1 ELSE 0)
    /\ UNCHANGED <<buildVars, handleVars, osVars, histVars>>

(***************************************************************************)
(* SocketImpl::connect(address, timeout).                                  *)
(*                                                                         *)
(* ConnectBegin runs the call up to the wait: the lazy init (::socket      *)
(* answers sd, or fails with serr), setBlocking(false), which is outside   *)
(* the try block, and ::connect, which answers crc ("ENOERR" for rc = 0).  *)
(* Every exit of the try block, by return or by exception, goes through    *)
(* setBlocking(RestoredMode).                                              *)
(***************************************************************************)
ConnectResults == {"ENOERR", "EINPROGRESS", "EWOULDBLOCK", "ECONNREFUSED", "EINTR"}

SocketErrorResults == {"ENOERR", "ECONNREFUSED", "ETIMEDOUT"}

RestoredModeSaved(blk0) == blk0

RestoredMode(blk0) == TRUE

ConnectBegin(h, T, sd, serr, crc, setup) ==
    /\ Idle
    /\ Live(h)
    /\ T \in TimeoutValues
    /\ crc \in ConnectResults
    /\ serr \in SocketErrors
    /\ LET needInit == sockfd[h] = POCO_INVALID_SOCKET
           fd == IF needInit THEN sd ELSE sockfd[h]
           sys0 == IF needInit THEN <<"socket">> ELSE <<>>
           open == IF needInit THEN osOpen \cup ({sd} \cap Fds) ELSE osOpen
           c0 == Frame("connect", h, sockfd[h], blocking[h], T, SelectModes, sys0)
       IN  /\ sd \in (IF needInit THEN SocketResults ELSE {POCO_INVALID_SOCKET})
           /\ setup \in (IF pollStrategy = "epoll" /\ fd \in open
                               /\ crc \in {"EINPROGRESS", "EWOULDBLOCK"}
                         THEN PollSetups ELSE {"ok"})
           /\ IF fd = POCO_INVALID_SOCKET
              THEN \* ::socket failed: init raises
                   /\ last' = Done(c0, error(serr), 0)
                   /\ UNCHANGED <<sockfd, blocking, osVars, held, pc, call>>
              ELSE IF fd \notin open
              THEN \* setBlocking(false) raises, outside the try block
                   /\ last' = Done([c0 EXCEPT !.sys = @ \o SetBlockingSys(FALSE)],
                                   error(BadDescriptor), 0)
                   /\ UNCHANGED <<sockfd, blocking, osVars, held, pc, call>>
              ELSE LET c1 == [c0 EXCEPT !.sys = @ \o SetBlockingSys(TRUE)
                                                 \o <<"connect">>]
                       pexc == PollSetupExc(fd, setup)
                       exc == IF crc = "ENOERR" THEN NoExc
                              ELSE IF crc \notin {"EINPROGRESS", "EWOULDBLOCK"}
                              THEN error(crc)
                              ELSE pexc
                       waits == crc \in {"EINPROGRESS", "EWOULDBLOCK"} /\ pexc = NoExc
                       c2 == IF crc \in {"EINPROGRESS", "EWOULDBLOCK"}
                             THEN [c1 EXCEPT !.sys = @ \o PollSetupSys(setup)]
                             ELSE c1
                   IN  /\ sockfd' = [sockfd EXCEPT ![h] = fd]
                       /\ held' = [held EXCEPT ![h] = @ \cup {fd}]
                       /\ osOpen' = open
                       /\ osTimeo' = IF needInit
                                     THEN [osTimeo EXCEPT ![fd] = NoTimeo]
                                     ELSE osTimeo
                       /\ IF waits
                          THEN /\ blocking' = [blocking EXCEPT ![h] = FALSE]
                               /\ osNonblock' = [osNonblock EXCEPT ![fd] = TRUE]
                               /\ pc' = "poll_wait"
                               /\ call' = c2
                               /\ last' = InCall(c2)
                          ELSE /\ blocking' = [blocking EXCEPT
                                                ![h] = RestoredMode(c0.blk0)]
                               /\ osNonblock' = [osNonblock EXCEPT
                                                  ![fd] = ~RestoredMode(c0.blk0)]
                               /\ last' = Done([c2 EXCEPT
                                                  !.sys = @ \o SetBlockingSys(TRUE)],
                                               exc, 0)
                               /\ UNCHANGED <<pc, call>>
    /\ UNCHANGED <<buildVars, hstate, sndTimeout, recvTimeout, orphans,
                   closedOnce, overClosed, callerError>>

(***************************************************************************)
(* connect(address, timeout) after its poll: a failed wait raises, a poll  *)
(* that reports not ready raises TimeoutException, and otherwise           *)
(* socketError() reads SO_ERROR (soerr) and a non-zero code is raised      *)
(* through error().  Then setBlocking(RestoredMode), on every path.        *)
(***************************************************************************)
SocketErrorIgnored(soerr) == NoExc

SocketErrorExc(soerr) == error(soerr)

ConnectAfterPoll(soerr) ==
    /\ pc = "poll_ret"
    /\ call.op = "connect"
    /\ soerr \in (IF PollExc(call) = NoExc /\ PollReady(call)
                  THEN SocketErrorResults ELSE {"ENOERR"})
    /\ LET exc == IF PollExc(call) # NoExc THEN PollExc(call)
                  ELSE IF ~PollReady(call) THEN "TimeoutException"
                  ELSE SocketErrorExc(soerr)
           read == PollExc(call) = NoExc /\ PollReady(call)
           sys == (IF PollExc(call) = NoExc /\ PollReady(call)
                   THEN <<"getsockopt">> ELSE <<>>) \o SetBlockingSys(TRUE)
           h == call.h
       IN  /\ blocking' = [blocking EXCEPT ![h] = RestoredMode(call.blk0)]
           /\ UNCHANGED osTimeo
           /\ osNonblock' = [osNonblock EXCEPT
                               ![sockfd[h]] = ~RestoredMode(call.blk0)]
           /\ last' = [Done([call EXCEPT !.sys = @ \o sys], exc,
                            IF PollReady(call) THEN 1 ELSE 0)
                       EXCEPT !.res = IF read THEN soerr ELSE "none"]
    /\ pc' = "idle"
    /\ call' = NoCall
    /\ UNCHANGED <<buildVars, hstate, sockfd, sndTimeout, recvTimeout, osOpen,
                   histVars>>

(***************************************************************************)
(* Polling and connecting with a timeout, on every build target.           *)
(***************************************************************************)
PollHandles == {1}      \* the calls of one thread on one handle

InitPoll == InitBuild(Platforms, PollStrategies, {FALSE}) /\ InitRest

NextPoll ==
    \/ \E h \in PollHandles : Construct(h)
    \/ \E h \in PollHandles : Close(h)
    \/ \E h \in PollHandles, flag \in BOOLEAN : SetBlocking(h, flag)
    \/ \E h \in PollHandles, T \in TimeoutValues, setup \in PollSetups :
            PollBegin(h, T, {"SELECT_READ"}, setup)
    \/ PollInterrupted
    \/ \E out \in PollOutcomes : PollFinished(out)
    \/ PollReturn
    \/ \E h \in PollHandles, T \in TimeoutValues,
          sd \in Fds \cup {POCO_INVALID_SOCKET},
          serr \in SocketErrors, crc \in ConnectResults, setup \in PollSetups :
            ConnectBegin(h, T, sd, serr, crc, setup)
    \/ \E soerr \in SocketErrorResults : ConnectAfterPoll(soerr)

SpecPoll == InitPoll /\ [][NextPoll]_vars

(***************************************************************************)
(* The send/receive family: sendBytes, receiveBytes, sendTo, receiveFrom,  *)
(* each in a single-buffer and a scatter/gather ("Vec") form.              *)
(***************************************************************************)
SendForms == {"sendBytes", "sendBytesVec", "sendTo", "sendToVec"}
ReceiveForms == {"receiveBytes", "receiveBytesVec", "receiveFrom",
                 "receiveFromVec"}
TransferForms == SendForms \cup ReceiveForms
VecForms == {"sendBytesVec", "receiveBytesVec", "sendToVec", "receiveFromVec"}

(***************************************************************************)
(* The forms that create the socket when the descriptor is unset, instead  *)
(* of raising InvalidSocketException: sendTo, in both forms.               *)
(***************************************************************************)
LazyInitForms == {"sendTo", "sendToVec"}

(***************************************************************************)
(* The forms that begin with checkBrokenTimeout when _blocking is set.     *)
(***************************************************************************)
CheckedForms == TransferForms \ {"sendTo", "sendToVec"}

(***************************************************************************)
(* The transfer syscall of a form on the build.                            *)
(***************************************************************************)
TransferSys(form) ==
    CASE form = "sendBytes" -> "send"
      [] form = "receiveBytes" -> "recv"
      [] form = "sendTo" -> "sendto"
      [] form = "receiveFrom" -> "recvfrom"
      [] form = "sendBytesVec" ->
            IF platform = "windows" THEN "WSASend" ELSE "writev"
      [] form = "receiveBytesVec" ->
            IF platform = "windows" THEN "WSARecv" ELSE "readv"
      [] form = "sendToVec" ->
            IF platform = "windows" THEN "WSASendTo" ELSE "sendmsg"
      [] OTHER ->
            IF platform = "windows" THEN "WSARecvFrom" ELSE "recvmsg"

(***************************************************************************)
(* What the last transfer syscall of a call answers: "ok" with a byte      *)
(* count, or an error code.  A descriptor that is not open answers the     *)
(* bad-descriptor code.                                                    *)
(***************************************************************************)
TransferCodes == {"ok", "EINTR", "EAGAIN", "EWOULDBLOCK", "ETIMEDOUT",
                  "ECONNRESET", "EPIPE"}

TransferResults(fd) == IF fd \in osOpen THEN TransferCodes ELSE {BadDescriptor}

ByteCounts == {0, 1}

(***************************************************************************)
(* The scatter/gather forms on Windows test the syscall's result inside    *)
(* the loop: "if (rc == SOCKET_ERROR) error();", then rc = bytes moved.    *)
(***************************************************************************)
RaisesInLoop(form) == platform = "windows" /\ form \in VecForms

(***************************************************************************)
(* The do-while loop: "while (_blocking && rc < 0 && lastError() ==        *)
(* POCO_EINTR)".  k is the number of interrupted syscalls the loop         *)
(* re-issues before the syscall that answers res.                          *)
(***************************************************************************)
Retries(form, blk, k, res) ==
    IF blk /\ ~RaisesInLoop(form) THEN res # "EINTR" ELSE k = 0

(***************************************************************************)
(* The exception a transfer ends with after its loop, NoExc for a return. *)
(***************************************************************************)
TransferExc(form, blk, res) ==
    CASE res = "ok" -> NoExc
      [] RaisesInLoop(form) -> error(res)
      [] ~blk /\ res \in {"EAGAIN", "EWOULDBLOCK"} -> NoExc
      [] res \in {"EAGAIN", "ETIMEDOUT"} -> "TimeoutException"
      [] OTHER -> error(res)

(***************************************************************************)
(* The value a transfer returns: the byte count, or the syscall's -1.      *)
(***************************************************************************)
TransferRc(res, n) == IF res = "ok" THEN n ELSE 0 - 1

(***************************************************************************)
(* receiveFrom(..., SocketAddress& address, flags), both forms: "if (rc >= *)
(* 0) address = SocketAddress(pSA, saLen);" after the inner receiveFrom    *)
(* has returned; an exception of the inner call leaves the wrapper before  *)
(* the test.                                                               *)
(***************************************************************************)
AddressFromForms == {"receiveFrom", "receiveFromVec"}

AddressAssignedOnReturn(form, exc, rc) ==
    form \in AddressFromForms /\ exc = NoExc

AddressAssigned(form, exc, rc) ==
    form \in AddressFromForms /\ exc = NoExc /\ rc >= 0

(***************************************************************************)
(* The syscalls of the loop of a transfer on descriptor fd, for the call   *)
(* with frame c: k interrupted ones that the loop re-issues, and the one   *)
(* that answers res (n bytes); then what follows the loop.                 *)
(***************************************************************************)
TransferSyscalls(c, fd, results) ==
    \E k \in 0..MaxIntr, res \in results, n \in ByteCounts :
        /\ Retries(c.op, blocking[c.h], k, res)
        /\ res # "ok" => n = 0
        /\ last' = [Done([c EXCEPT !.sys = @ \o Rep(TransferSys(c.op), k + 1)],
                         TransferExc(c.op, blocking[c.h], res),
                         TransferRc(res, n))
                    EXCEPT !.res = res,
                           !.addr = IF AddressAssigned(c.op,
                                          TransferExc(c.op, blocking[c.h], res),
                                          TransferRc(res, n))
                                    THEN "peer" ELSE NoAddr]

(***************************************************************************)
(* The loop of a transfer and what follows it.  Each pass first looks at   *)
(* _sockfd: unset, the form raises InvalidSocketException, or (sendTo)     *)
(* calls init, whose ::socket answers a new descriptor sd or fails with    *)
(* serr.  Then the syscall is issued.                                      *)
(***************************************************************************)
TransferLoop(c) ==
    LET h == c.h
        unset == sockfd[h] = POCO_INVALID_SOCKET
    IN  IF unset /\ c.op \notin LazyInitForms
        THEN /\ last' = Done(c, "InvalidSocketException", 0)
             /\ UNCHANGED <<sockfd, osOpen, osNonblock, osTimeo, held>>
        ELSE IF unset
        THEN \E sd \in SocketResults, serr \in SocketErrors :
                LET c1 == [c EXCEPT !.sys = @ \o <<"socket">>]
                IN  IF sd = POCO_INVALID_SOCKET
                    THEN /\ last' = Done(c1, error(serr), 0)
                         /\ UNCHANGED <<sockfd, osOpen, osNonblock, osTimeo, held>>
                    ELSE /\ sockfd' = [sockfd EXCEPT ![h] = sd]
                         /\ osOpen' = osOpen \cup {sd}
                         /\ osNonblock' = [osNonblock EXCEPT ![sd] = FALSE]
                         /\ osTimeo' = [osTimeo EXCEPT ![sd] = NoTimeo]
                         /\ held' = [held EXCEPT ![h] = @ \cup {sd}]
                         /\ TransferSyscalls(c1, sd, TransferCodes)
        ELSE /\ TransferSyscalls(c, sockfd[h], TransferResults(sockfd[h]))
             /\ UNCHANGED <<sockfd, osOpen, osNonblock, osTimeo, held>>

(***************************************************************************)
(* checkBrokenTimeout(mode): the stored timeout the poll is given, the     *)
(* receive timeout for SELECT_READ and the send timeout otherwise.         *)
(***************************************************************************)
CheckMode(form) == IF form \in ReceiveForms THEN "SELECT_READ" ELSE "SELECT_WRITE"

CheckTimeout(h, form) ==
    IF CheckMode(form) = "SELECT_READ" THEN recvTimeout[h] ELSE sndTimeout[h]

(***************************************************************************)
(* Whether the call of a form starts with a poll: "if (_blocking)          *)
(* checkBrokenTimeout(mode)", which polls when _isBrokenTimeout is set     *)
(* and the stored timeout is not zero.                                     *)
(***************************************************************************)
PollsFirst(h, form) ==
    /\ form \in CheckedForms
    /\ blocking[h]
    /\ isBrokenTimeout
    /\ CheckTimeout(h, form) # 0

(***************************************************************************)
(* A call of sendBytes, receiveBytes, sendTo or receiveFrom, in either     *)
(* form: up to the wait of the poll of checkBrokenTimeout when there is    *)
(* one, or else to its end.                                                *)
(***************************************************************************)
TransferBegin(h, form) ==
    /\ Idle
    /\ Live(h)
    /\ form \in TransferForms
    /\ IF PollsFirst(h, form)
       THEN /\ \E setup \in (IF pollStrategy = "epoll"
                                   /\ sockfd[h] # POCO_INVALID_SOCKET
                              THEN PollSetups ELSE {"ok"}) :
                LET exc == PollSetupExc(sockfd[h], setup)
                    sys == IF sockfd[h] = POCO_INVALID_SOCKET THEN <<>>
                           ELSE PollSetupSys(setup)
                    c == Frame(form, h, sockfd[h], blocking[h],
                               CheckTimeout(h, form), {CheckMode(form)}, sys)
                IN  IF exc # NoExc
                    THEN /\ last' = Done(c, exc, 0)
                         /\ UNCHANGED <<pc, call>>
                    ELSE /\ pc' = "poll_wait"
                         /\ call' = c
                         /\ last' = InCall(c)
            /\ UNCHANGED <<sockfd, osOpen, osNonblock, osTimeo, held>>
       ELSE /\ TransferLoop(Frame(form, h, sockfd[h], blocking[h], 0, {}, <<>>))
            /\ UNCHANGED <<pc, call>>
    /\ UNCHANGED <<buildVars, hstate, blocking, sndTimeout, recvTimeout,
                   orphans, closedOnce, overClosed, callerError>>

(***************************************************************************)
(* A transfer after the poll of checkBrokenTimeout: a failed wait raises,  *)
(* a poll that reports not ready raises TimeoutException, and otherwise    *)
(* the loop runs.                                                          *)
(***************************************************************************)
TransferAfterPoll ==
    /\ pc = "poll_ret"
    /\ call.op \in TransferForms
    /\ IF PollExc(call) # NoExc
       THEN /\ last' = Done(call, PollExc(call), 0)
            /\ UNCHANGED <<sockfd, osOpen, osNonblock, osTimeo, held>>
       ELSE IF ~PollReady(call)
       THEN /\ last' = Done(call, "TimeoutException", 0)
            /\ UNCHANGED <<sockfd, osOpen, osNonblock, osTimeo, held>>
       ELSE TransferLoop(call)
    /\ pc' = "idle"
    /\ call' = NoCall
    /\ UNCHANGED <<buildVars, hstate, blocking, sndTimeout, recvTimeout,
                   orphans, closedOnce, overClosed, callerError>>

(***************************************************************************)
(* The operations that look at _sockfd, raise InvalidSocketException when  *)
(* it is unset, and otherwise issue one syscall whose failure is raised    *)
(* through error(): listen, the three shutdowns, address, peerAddress,     *)
(* setRawOption, getRawOption and sendUrgent.                              *)
(***************************************************************************)
ControlOps == {"listen", "shutdownReceive", "shutdownSend", "shutdown",
               "address", "peerAddress", "setRawOption", "getRawOption",
               "sendUrgent"}

ControlSys(op) ==
    CASE op = "listen" -> "listen"
      [] op \in {"shutdownReceive", "shutdownSend", "shutdown"} -> "shutdown"
      [] op = "address" -> "getsockname"
      [] op = "peerAddress" -> "getpeername"
      [] op = "setRawOption" -> "setsockopt"
      [] op = "getRawOption" -> "getsockopt"
      [] OTHER -> "send"

ControlCodes == {"ok", "EINVAL", "ENOTCONN"}

ControlResults(fd) == IF fd \in osOpen THEN ControlCodes ELSE {BadDescriptor}

(***************************************************************************)
(* sendUrgent issues a ::send, which a signal can interrupt; it has no     *)
(* loop around it: "if (rc < 0) error();".                                 *)
(***************************************************************************)
SendUrgentResults(fd) ==
    IF fd \in osOpen THEN ControlCodes \cup {"EINTR"} ELSE {BadDescriptor}

ControlExc(fd, res) ==
    IF fd = POCO_INVALID_SOCKET THEN "InvalidSocketException"
    ELSE IF res = "ok" THEN NoExc
    ELSE error(res)

Control(h, op, res) ==
    /\ Idle
    /\ Live(h)
    /\ op \in ControlOps
    /\ res \in (IF sockfd[h] = POCO_INVALID_SOCKET THEN {"ok"}
                ELSE IF op = "sendUrgent" THEN SendUrgentResults(sockfd[h])
                ELSE ControlResults(sockfd[h]))
    /\ last' = [Ret(op, h, ControlExc(sockfd[h], res), 0,
                    IF sockfd[h] = POCO_INVALID_SOCKET THEN <<>>
                    ELSE <<ControlSys(op)>>)
                EXCEPT !.res = IF sockfd[h] = POCO_INVALID_SOCKET THEN "none"
                               ELSE res]
    /\ UNCHANGED <<buildVars, handleVars, osVars, histVars, pc, call>>

(***************************************************************************)
(* SocketImpl::available(): ioctl(FIONREAD, result), which issues the      *)
(* ioctl on _sockfd as it is and raises its failure through error().  The  *)
(* handle is a stream socket, so that no datagram is peeked at.            *)
(***************************************************************************)
IoctlSys == IF platform = "windows" THEN "ioctlsocket" ELSE "ioctl"

Available(h, res, n) ==
    /\ Idle
    /\ Live(h)
    /\ res \in ControlResults(sockfd[h])
    /\ n \in ByteCounts
    /\ res # "ok" => n = 0
    /\ last' = Ret("available", h, IF res = "ok" THEN NoExc ELSE error(res),
                   n, <<IoctlSys>>)
    /\ UNCHANGED <<buildVars, handleVars, osVars, histVars, pc, call>>

(***************************************************************************)
(* SocketImpl::setSendTimeout(timeout) and setReceiveTimeout(timeout):     *)
(* unless POCO_BROKEN_TIMEOUTS is defined, setOption(SO_SNDTIMEO /         *)
(* SO_RCVTIMEO), which goes through setRawOption; then, when               *)
(* _isBrokenTimeout is set, the timeout is stored in the handle.           *)
(***************************************************************************)
SetTimeoutExc(h, res) ==
    IF brokenTimeouts THEN NoExc ELSE ControlExc(sockfd[h], res)

SetTimeoutSys(h) ==
    IF brokenTimeouts \/ sockfd[h] = POCO_INVALID_SOCKET THEN <<>>
    ELSE <<"setsockopt">>

SetTimeoutResults(h) ==
    IF brokenTimeouts \/ sockfd[h] = POCO_INVALID_SOCKET THEN {"ok"}
    ELSE ControlResults(sockfd[h])

(***************************************************************************)
(* The value handed to the OS option and the value read back from it.  On  *)
(* Windows the option is an int of milliseconds: the setter passes         *)
(* "(int) timeout.totalMilliseconds()" and the getter returns              *)
(* "Timespan::TimeDiff(value)*1000".  Elsewhere it is a timeval with the   *)
(* seconds and the microseconds of the timeout.                            *)
(***************************************************************************)
ToNative(timeout) ==
    IF platform = "windows" THEN timeout \div MILLISECONDS ELSE timeout

FromNative(value) ==
    IF platform = "windows" THEN value * MILLISECONDS ELSE value

(***************************************************************************)
(* The OS options after a setter for direction dir ("snd", "rcv").         *)
(***************************************************************************)
OptionsAfterSet(h, dir, timeout, res) ==
    IF brokenTimeouts \/ SetTimeoutExc(h, res) # NoExc THEN osTimeo
    ELSE [osTimeo EXCEPT ![sockfd[h]][dir] = ToNative(timeout)]

SetSendTimeout(h, timeout, res) ==
    /\ Idle
    /\ Live(h)
    /\ timeout \in TimeoutValues
    /\ res \in SetTimeoutResults(h)
    /\ osTimeo' = OptionsAfterSet(h, "snd", timeout, res)
    /\ sndTimeout' = IF SetTimeoutExc(h, res) = NoExc /\ isBrokenTimeout
                     THEN [sndTimeout EXCEPT ![h] = timeout]
                     ELSE sndTimeout
    /\ last' = [Ret("setSendTimeout", h, SetTimeoutExc(h, res), 0,
                    SetTimeoutSys(h)) EXCEPT !.T = timeout]
    /\ UNCHANGED <<buildVars, hstate, sockfd, blocking, recvTimeout, osOpen,
                   osNonblock, histVars, pc, call>>

SetReceiveTimeout(h, timeout, res) ==
    /\ Idle
    /\ Live(h)
    /\ timeout \in TimeoutValues
    /\ res \in SetTimeoutResults(h)
    /\ osTimeo' = OptionsAfterSet(h, "rcv", timeout, res)
    /\ recvTimeout' = IF SetTimeoutExc(h, res) = NoExc /\ isBrokenTimeout
                      THEN [recvTimeout EXCEPT ![h] = timeout]
                      ELSE recvTimeout
    /\ last' = [Ret("setReceiveTimeout", h, SetTimeoutExc(h, res), 0,
                    SetTimeoutSys(h)) EXCEPT !.T = timeout]
    /\ UNCHANGED <<buildVars, hstate, sockfd, blocking, sndTimeout, osOpen,
                   osNonblock, histVars, pc, call>>

(***************************************************************************)
(* SocketImpl::getSendTimeout() and getReceiveTimeout(): unless            *)
(* POCO_BROKEN_TIMEOUTS is defined, getOption(SO_SNDTIMEO / SO_RCVTIMEO),  *)
(* which goes through getRawOption; then, when _isBrokenTimeout is set,    *)
(* the result is replaced by the timeout stored in the handle.             *)
(***************************************************************************)
GetTimeoutSys(h) ==
    IF brokenTimeouts \/ sockfd[h] = POCO_INVALID_SOCKET THEN <<>>
    ELSE <<"getsockopt">>

OptionRead(h, dir) ==
    IF brokenTimeouts THEN 0 ELSE FromNative(osTimeo[sockfd[h]][dir])

TimeoutResultNative(h, dir) == OptionRead(h, dir)

TimeoutResult(h, dir) ==
    IF isBrokenTimeout
    THEN (IF dir = "snd" THEN sndTimeout[h] ELSE recvTimeout[h])
    ELSE OptionRead(h, dir)

GetSendTimeout(h, res) ==
    /\ Idle
    /\ Live(h)
    /\ res \in SetTimeoutResults(h)
    /\ last' = Ret("getSendTimeout", h, SetTimeoutExc(h, res),
                   IF SetTimeoutExc(h, res) = NoExc
                   THEN TimeoutResult(h, "snd") ELSE 0,
                   GetTimeoutSys(h))
    /\ UNCHANGED <<buildVars, handleVars, osVars, histVars, pc, call>>

GetReceiveTimeout(h, res) ==
    /\ Idle
    /\ Live(h)
    /\ res \in SetTimeoutResults(h)
    /\ last' = Ret("getReceiveTimeout", h, SetTimeoutExc(h, res),
                   IF SetTimeoutExc(h, res) = NoExc
                   THEN TimeoutResult(h, "rcv") ELSE 0,
                   GetTimeoutSys(h))
    /\ UNCHANGED <<buildVars, handleVars, osVars, histVars, pc, call>>

IOHandles == {1}

(***************************************************************************)
(* The timeout setters and getters of one handle, on every build target.   *)
(***************************************************************************)
InitTimeo == InitBuild(Platforms, {"epoll"}, BOOLEAN) /\ InitRest

NextTimeo ==
    \/ \E h \in IOHandles : Construct(h)
    \/ \E h \in IOHandles, sd \in Fds \cup {POCO_INVALID_SOCKET},
          err \in SocketErrors : InitSocket(h, sd, err)
    \/ \E h \in IOHandles : Close(h)
    \/ \E h \in IOHandles, timeout \in TimeoutValues, res \in ControlCodes :
            SetSendTimeout(h, timeout, res)
    \/ \E h \in IOHandles, timeout \in TimeoutValues, res \in ControlCodes :
            SetReceiveTimeout(h, timeout, res)
    \/ \E h \in IOHandles, res \in ControlCodes : GetSendTimeout(h, res)
    \/ \E h \in IOHandles, res \in ControlCodes : GetReceiveTimeout(h, res)

SpecTimeo == InitTimeo /\ [][NextTimeo]_vars

(***************************************************************************)
(* The data and control operations of one handle, on every build target.   *)
(***************************************************************************)
IOTimeouts == {0, Quantum}

InitIO == InitBuild(Platforms, {"epoll"}, BOOLEAN) /\ InitRest

NextIO ==
    \/ \E h \in IOHandles : Construct(h)
    \/ \E h \in IOHandles, sd \in Fds \cup {POCO_INVALID_SOCKET},
          err \in SocketErrors : InitSocket(h, sd, err)
    \/ \E h \in IOHandles : Close(h)
    \/ \E h \in IOHandles, flag \in BOOLEAN : SetBlocking(h, flag)
    \/ \E h \in IOHandles, timeout \in IOTimeouts, res \in ControlCodes :
            SetSendTimeout(h, timeout, res)
    \/ \E h \in IOHandles, timeout \in IOTimeouts, res \in ControlCodes :
            SetReceiveTimeout(h, timeout, res)
    \/ \E h \in IOHandles, op \in ControlOps,
          res \in ControlCodes \cup {"EINTR", BadDescriptor} :
            Control(h, op, res)
    \/ \E h \in IOHandles, res \in ControlCodes \cup {BadDescriptor},
          n \in ByteCounts : Available(h, res, n)
    \/ \E h \in IOHandles, T \in IOTimeouts, setup \in PollSetups :
            PollBegin(h, T, {"SELECT_READ"}, setup)
    \/ PollInterrupted
    \/ \E out \in PollOutcomes : PollFinished(out)
    \/ PollReturn
    \/ \E h \in IOHandles, form \in TransferForms : TransferBegin(h, form)
    \/ TransferAfterPoll

SpecIO == InitIO /\ [][NextIO]_vars

(***************************************************************************)
(* SocketImpl::sendFile(fileInputStream, offset, count).                   *)
(*                                                                         *)
(* The file has size bytes, numbered 1..size; the caller's offset lies     *)
(* within the file.  sendFile first tests getBlocking(), then takes the    *)
(* zero-copy path (sendFileNative) or the chunked one (sendFileBlockwise). *)
(***************************************************************************)
FileSizes == 0..MaxFile

Min(a, b) == IF a < b THEN a ELSE b

(***************************************************************************)
(* The file positions a + 1 .. b, in order.                                *)
(***************************************************************************)
Span(a, b) == [i \in 1..(b - a) |-> a + i]

SendFileNeverRefused(h) == FALSE

SendFileRefused(h) == ~blocking[h]

SendFilePathNative(h) == IF haveSendfile THEN "native" ELSE "blockwise"

SendFilePath(h) ==
    IF haveSendfile /\ ~isSecure[h] THEN "native" ELSE "blockwise"

(***************************************************************************)
(* What the zero-copy primitive (sendfile, TransmitFile) can answer.       *)
(***************************************************************************)
SendFileCodes == {"ok", "EINTR", "ECONNRESET"}

SendFileResults(fd) == IF fd \in osOpen THEN SendFileCodes ELSE {BadDescriptor}

(***************************************************************************)
(* The end of a sendFile call, and a call that goes on with frame c.       *)
(***************************************************************************)
SendFileEnd(c, exc, rc, res) ==
    /\ pc' = "idle"
    /\ call' = NoCall
    /\ last' = [Done(c, exc, rc) EXCEPT !.res = res]

SendFileGoOn(c) ==
    /\ pc' = "sendfile"
    /\ call' = c
    /\ last' = InCall(c)

(***************************************************************************)
(* fileInputStream.read(buffer, bufferSize); n = gcount().  A read that     *)
(* meets the end of the file before bufferSize bytes leaves the stream     *)
(* failed ("if (fileInputStream)" is then false).                          *)
(***************************************************************************)
FileRead(f) ==
    LET n == Min(f.bufferSize, f.size - f.offset)
    IN  [f EXCEPT !.n = n, !.offset = @ + n, !.good = (n = f.bufferSize)]

(***************************************************************************)
(* sendFileNative on Windows: one TransmitFile of count bytes from offset  *)
(* (count = 0: size - offset), waited for; it returns count whatever was   *)
(* transmitted.  TransmitFile sends what the file holds from offset, at    *)
(* most count bytes.                                                       *)
(***************************************************************************)
SendFileTransmit(c) ==
    LET f == c.file
        c1 == [c EXCEPT !.sys = @ \o <<"CreateEvent", "TransmitFile">>]
    IN  \E res \in SendFileResults(sockfd[c.h]) :
            IF res = "ok"
            THEN SendFileEnd([c1 EXCEPT !.file.wire =
                                 Span(f.offset,
                                      f.offset + Min(f.count, f.size - f.offset))],
                             NoExc, f.count, res)
            ELSE SendFileEnd(c1, error(res), 0, res)

(***************************************************************************)
(* sendFileNative elsewhere: "while (count > 0)" around sendFileUnix.      *)
(***************************************************************************)
SendFileNativeLoop(c) ==
    IF c.file.count > 0
    THEN SendFileGoOn(c)
    ELSE SendFileEnd(c, NoExc, c.file.sent, "none")

SendFileNative(c) ==
    LET f == c.file
        c1 == [c EXCEPT !.file.path = "native",
                        !.file.count = IF f.count = 0 THEN f.size - f.offset
                                       ELSE f.count]
    IN  IF platform = "windows"
        THEN SendFileTransmit(c1)
        ELSE SendFileNativeLoop(c1)

(***************************************************************************)
(* sendFileBlockwise: seekg(offset), the buffer of BufferSize bytes        *)
(* clipped to count, the first read, then the loop                         *)
(* "while (n > 0 && (count == 0 || len < count))".                         *)
(***************************************************************************)
SendFileBlockwiseLoop(c) ==
    IF c.file.n > 0 /\ (c.file.count = 0 \/ c.file.sent < c.file.count)
    THEN SendFileGoOn(c)
    ELSE SendFileEnd(c, NoExc, c.file.sent, "none")

SendFileBlockwise(c) ==
    LET f == c.file
        f1 == [f EXCEPT !.path = "blockwise",
                        !.bufferSize = IF f.count > 0 /\ BufferSize > f.count
                                       THEN f.count ELSE BufferSize]
    IN  SendFileBlockwiseLoop([c EXCEPT !.file = FileRead(f1),
                                        !.sys = @ \o <<"seekg", "read">>])

SendFileBefore(h, size, offset, count) ==
    IF /\ last.op = "sendFile" /\ last.exc = NoExc /\ last.h # h
       /\ last.file.size = size /\ last.file.offset0 = offset
       /\ last.file.count0 = count
    THEN [path |-> last.file.path, wire |-> last.file.wire, rc |-> last.rc]
    ELSE NoBefore

SendFileBegin(h) ==
    /\ Idle
    /\ Live(h)
    /\ \E size \in FileSizes, offset \in 0..MaxFile, count \in 0..MaxFile :
        /\ offset <= size
        /\ LET c == [Frame("sendFile", h, sockfd[h], blocking[h], 0, {}, <<>>)
                     EXCEPT !.file = [NoFile EXCEPT !.size = size,
                                                    !.offset0 = offset,
                                                    !.count0 = count,
                                                    !.offset = offset,
                                                    !.count = count,
                                                    !.before =
                                                      SendFileBefore(h, size,
                                                              offset, count)]]
           IN  IF SendFileRefused(h)
               THEN SendFileEnd(c, "NetException", 0, "none")
               ELSE IF SendFilePath(h) = "native"
               THEN SendFileNative(c)
               ELSE SendFileBlockwise(c)
    /\ UNCHANGED <<buildVars, handleVars, osVars, histVars>>

(***************************************************************************)
(* One pass of sendFileNative's loop: sendFileUnix(_sockfd, fd, offset,    *)
(* count) moves r bytes of the file from offset, at most count and at most *)
(* what the file holds, at least one while the file holds any; at the end  *)
(* of the file it answers 0.  A negative answer raises error(errno).       *)
(* After an answer of 0 the locals are as before the pass, and the loop    *)
(* goes on: zero records that this has happened, and tick is the parity of *)
(* the passes that moved nothing.                                          *)
(***************************************************************************)
SendFileNativeStep ==
    /\ pc = "sendfile"
    /\ call.file.path = "native"
    /\ LET f == call.file
           left == f.size - f.offset
           c1 == IF f.zero THEN call ELSE [call EXCEPT !.sys = @ \o <<"sendfile">>]
       IN  \E res \in SendFileResults(sockfd[call.h]), r \in 0..f.count :
            /\ r <= left
            /\ IF res = "ok" THEN (r = 0) <=> (left = 0) ELSE r = 0
            /\ IF res # "ok"
               THEN SendFileEnd(c1, error(res), 0, res)
               ELSE SendFileNativeLoop(
                        [c1 EXCEPT !.file.sent = @ + r,
                                   !.file.offset = @ + r,
                                   !.file.count = @ - r,
                                   !.file.zero = (r = 0),
                                   !.file.tick = IF r = 0 THEN 1 - @ ELSE @,
                                   !.file.wire = @ \o Span(f.offset, f.offset + r)])
    /\ UNCHANGED <<buildVars, handleVars, osVars, histVars>>

(***************************************************************************)
(* One pass of sendFileBlockwise's loop: "len += n; sendBytes(buffer, n);" *)
(* the clip of bufferSize to what is left of count, and the next read.     *)
(* sendBytes is the blocking call: it re-issues an interrupted ::send,     *)
(* raises on an unset descriptor or a failed ::send, and else answers the  *)
(* bytes a (1..n) the socket accepted, the first a of the buffer.          *)
(***************************************************************************)
SendFileBlockwiseSent(c, a) ==
    LET f == c.file
        f1 == [f EXCEPT !.sent = @ + f.n,
                        !.wire = @ \o Span(f.offset - f.n, f.offset - f.n + a)]
        f2 == IF f1.count > 0 /\ f1.sent < f1.count
                 /\ f1.bufferSize > f1.count - f1.sent
              THEN [f1 EXCEPT !.bufferSize = f1.count - f1.sent]
              ELSE f1
    IN  IF f2.good
        THEN [c EXCEPT !.file = FileRead(f2), !.sys = @ \o <<"read">>]
        ELSE [c EXCEPT !.file = [f2 EXCEPT !.n = 0]]

SendFileBlockwiseStep ==
    /\ pc = "sendfile"
    /\ call.file.path = "blockwise"
    /\ LET fd == sockfd[call.h]
       IN  IF fd = POCO_INVALID_SOCKET
           THEN SendFileEnd(call, "InvalidSocketException", 0, "none")
           ELSE \E k \in 0..MaxIntr, res \in TransferResults(fd),
                   a \in 1..call.file.n :
                 /\ Retries("sendBytes", TRUE, k, res)
                 /\ res # "ok" => a = 1
                 /\ LET c1 == [call EXCEPT !.sys = @ \o Rep("send", k + 1)]
                    IN  IF res # "ok"
                        THEN SendFileEnd(c1, TransferExc("sendBytes", TRUE, res),
                                         0, res)
                        ELSE SendFileBlockwiseLoop(SendFileBlockwiseSent(c1, a))
    /\ UNCHANGED <<buildVars, handleVars, osVars, histVars>>

(***************************************************************************)
(* The sendFile calls of one thread on one handle, on every build target   *)
(* without the timeout emulation (checkBrokenTimeout is then a no-op in    *)
(* sendBytes), with and without the zero-copy primitive, for a plain and   *)
(* for an encrypted transport.                                             *)
(***************************************************************************)
FileHandles == {1}

InitFile ==
    /\ InitTarget(Platforms, {"epoll"}, {FALSE})
    /\ haveSendfile \in BOOLEAN
    /\ isSecure \in [Handles -> BOOLEAN]
    /\ \A h \in Handles \ FileHandles : ~isSecure[h]
    /\ InitRest

NextFile ==
    \/ \E h \in FileHandles : Construct(h)
    \/ \E h \in FileHandles, sd \in Fds \cup {POCO_INVALID_SOCKET},
          err \in SocketErrors : InitSocket(h, sd, err)
    \/ \E h \in FileHandles : Close(h)
    \/ \E h \in FileHandles, flag \in BOOLEAN : SetBlocking(h, flag)
    \/ \E h \in FileHandles : SendFileBegin(h)
    \/ SendFileNativeStep
    \/ SendFileBlockwiseStep

SpecFile == InitFile /\ [][NextFile]_vars

(***************************************************************************)
(* The thread inside sendFile keeps running: a pass of either loop that    *)
(* can be taken is taken.  What the OS answers to a pass is not subject to *)
(* fairness.                                                               *)
(***************************************************************************)
SpecFileFair ==
    /\ SpecFile
    /\ WF_vars(SendFileNativeStep)
    /\ WF_vars(SendFileBlockwiseStep)

(***************************************************************************)
(* The sendFile calls of one thread on the handles of a build with the     *)
(* zero-copy primitive, each handle a plain or an encrypted transport: a   *)
(* file can be sent on one handle by the zero-copy path and on another by  *)
(* the chunked one.                                                        *)
(***************************************************************************)
InitFilePair ==
    /\ InitTarget(Platforms, {"epoll"}, {FALSE})
    /\ haveSendfile = TRUE
    /\ isSecure \in [Handles -> BOOLEAN]
    /\ InitRest

NextFilePair ==
    \/ \E h \in Handles : Construct(h)
    \/ \E h \in Handles, sd \in Fds \cup {POCO_INVALID_SOCKET},
          err \in SocketErrors : InitSocket(h, sd, err)
    \/ \E h \in Handles : SendFileBegin(h)
    \/ SendFileNativeStep
    \/ SendFileBlockwiseStep

SpecFilePair == InitFilePair /\ [][NextFilePair]_vars

(***************************************************************************)
(* SocketImpl::error(int code, const std::string& arg), called from a      *)
(* method of handle h: the message of the exception raised.  ErrorText is  *)
(* the text of the code's case (none for the exceptions built from the     *)
(* code alone; the formatted code in the default case), ArgCodes are the   *)
(* cases that hand arg to the exception.  EPIPE, EBADF and ENOENT have     *)
(* cases on Unix only.                                                     *)
(***************************************************************************)
UnixCodes == {"EPIPE", "EBADF", "ENOENT"}

DefaultCase(code) ==
    /\ code \notin {"ENOERR", "ESYSNOTREADY", "ENOTINIT", "EINTR", "EACCES",
                    "EFAULT", "EINVAL", "EMFILE", "EWOULDBLOCK", "EINPROGRESS",
                    "EALREADY", "ENOTSOCK", "EDESTADDRREQ", "EMSGSIZE",
                    "EPROTOTYPE", "ENOPROTOOPT", "EPROTONOSUPPORT",
                    "ESOCKTNOSUPPORT", "ENOTSUP", "EPFNOSUPPORT",
                    "EAFNOSUPPORT", "EADDRINUSE", "EADDRNOTAVAIL", "ENETDOWN",
                    "ENETUNREACH", "ENETRESET", "ECONNABORTED", "ECONNRESET",
                    "ENOBUFS", "EISCONN", "ENOTCONN", "ESHUTDOWN", "ETIMEDOUT",
                    "ECONNREFUSED", "EHOSTDOWN", "EHOSTUNREACH"}
    /\ ~(platform = "unix" /\ code \in UnixCodes)

ErrorText(code) ==
    CASE DefaultCase(code) -> code
      [] code = "ESYSNOTREADY" -> "Net subsystem not ready"
      [] code = "ENOTINIT" -> "Net subsystem not initialized"
      [] code = "EINTR" -> "Interrupted"
      [] code = "EACCES" -> "Permission denied"
      [] code = "EFAULT" -> "Bad address"
      [] code = "EMFILE" -> "Too many open files"
      [] code = "EWOULDBLOCK" -> "Operation would block"
      [] code = "EINPROGRESS" -> "Operation now in progress"
      [] code = "EALREADY" -> "Operation already in progress"
      [] code = "ENOTSOCK" -> "Socket operation attempted on non-socket"
      [] code = "EDESTADDRREQ" -> "Destination address required"
      [] code = "EMSGSIZE" -> "Message too long"
      [] code = "EPROTOTYPE" -> "Wrong protocol type"
      [] code = "ENOPROTOOPT" -> "Protocol not available"
      [] code = "EPROTONOSUPPORT" -> "Protocol not supported"
      [] code = "ESOCKTNOSUPPORT" -> "Socket type not supported"
      [] code = "ENOTSUP" -> "Operation not supported"
      [] code = "EPFNOSUPPORT" -> "Protocol family not supported"
      [] code = "EAFNOSUPPORT" -> "Address family not supported"
      [] code = "EADDRINUSE" -> "Address already in use"
      [] code = "EADDRNOTAVAIL" -> "Cannot assign requested address"
      [] code = "ENETDOWN" -> "Network is down"
      [] code = "ENETUNREACH" -> "Network is unreachable"
      [] code = "ENETRESET" -> "Network dropped connection on reset"
      [] code = "ENOBUFS" -> "No buffer space available"
      [] code = "EISCONN" -> "Socket is already connected"
      [] code = "ENOTCONN" -> "Socket is not connected"
      [] code = "ESHUTDOWN" -> "Cannot send after socket shutdown"
      [] code = "EHOSTDOWN" -> "Host is down"
      [] code = "EHOSTUNREACH" -> "No route to host"
      [] code = "EPIPE" -> "Broken pipe"
      [] code = "EBADF" -> "Bad socket descriptor"
      [] code = "ENOENT" -> "Not found"
      [] OTHER -> ""      \* ENOERR, and the exceptions built from the code alone

ArgCodes == {"EADDRINUSE", "EADDRNOTAVAIL", "ECONNREFUSED", "EHOSTDOWN",
             "EHOSTUNREACH", "ENOENT"}

errorMessageOfHandle(h, code, arg) ==
    IF code = "ENOERR" THEN NoMessage
    ELSE IF sockfd[h] = POCO_INVALID_SOCKET
    THEN [text |-> "Bad socket descriptor", shown |-> ""]
    ELSE [text |-> ErrorText(code),
          shown |-> IF code \in ArgCodes \/ DefaultCase(code) THEN arg ELSE ""]

errorMessage(h, code, arg) ==
    IF code = "ENOERR" THEN NoMessage
    ELSE [text |-> ErrorText(code),
          shown |-> IF code \in ArgCodes \/ DefaultCase(code) THEN arg ELSE ""]

(***************************************************************************)
(* A call of error(code, arg) from a method of handle h, in any state of   *)
(* the handle: it returns or raises, and changes nothing.                  *)
(***************************************************************************)
ErrorCall(h, code, arg) ==
    /\ Idle
    /\ last' = [Ret("error", h, error(code), 0, <<>>)
                EXCEPT !.res = code,
                       !.err = [arg |-> arg, msg |-> errorMessage(h, code, arg)]]
    /\ UNCHANGED <<buildVars, handleVars, osVars, histVars, pc, call>>

(***************************************************************************)
(* error() called with every kind of code from two handles, between the    *)
(* operations that change the handles' state.                              *)
(***************************************************************************)
ErrorCodes == {"ENOERR", "EINTR", "EINVAL", "EWOULDBLOCK", "EADDRINUSE",
               "ECONNRESET", "ETIMEDOUT", "ECONNREFUSED", "EPIPE", "ENOENT",
               "E999"}

ErrorArgs == {"", "host:80"}

ErrorHandles == {1, 2}      \* the handles whose methods call error()

InitError == InitBuild(Platforms, {"epoll"}, {FALSE}) /\ InitRest

NextError ==
    \/ \E h \in ErrorHandles : Construct(h)
    \/ \E h \in ErrorHandles, sd \in Fds \cup {POCO_INVALID_SOCKET},
          err \in SocketErrors : InitSocket(h, sd, err)
    \/ \E h \in ErrorHandles : Close(h)
    \/ \E h \in ErrorHandles, flag \in BOOLEAN : SetBlocking(h, flag)
    \/ \E h \in ErrorHandles, code \in ErrorCodes, arg \in ErrorArgs :
            ErrorCall(h, code, arg)

SpecError == InitError /\ [][NextError]_vars

(***************************************************************************)
(* SocketImpl::poll(timeout, mode) in a given environment env, as the      *)
(* strategy's loop runs it.  PollLoop is the do-while loop from time now   *)
(* with remainingTime left, signals[k] the next signal: the wait is given  *)
(* the strategy's budget; it fails with env.fail, or returns rc > 0 when   *)
(* the descriptor is ready before the budget is used up, or is             *)
(* interrupted by the next signal, after which the time waited is taken    *)
(* off remainingTime and the wait is issued again, or returns 0 when the   *)
(* budget is used up.                                                      *)
(***************************************************************************)
RECURSIVE PollLoop(_, _, _, _, _)
PollLoop(strategy, remainingTime, now, env, k) ==
    LET budget == WaitBudgetOf(strategy, remainingTime)
        signal == IF k <= Len(env.signals) THEN env.signals[k] ELSE Never
    IN  IF env.fail # "none" THEN [exc |-> error(env.fail), rc |-> 0]
        ELSE IF env.ready <= now THEN [exc |-> NoExc, rc |-> 1]
        ELSE IF env.ready < now + budget /\ env.ready <= signal
        THEN [exc |-> NoExc, rc |-> 1]
        ELSE IF signal < now + budget
        THEN PollLoop(strategy, RemainingAfter(remainingTime, signal - now),
                      signal, env, k + 1)
        ELSE [exc |-> NoExc, rc |-> 0]

PollRun(strategy, fd, T, env) ==
    IF fd = POCO_INVALID_SOCKET
    THEN [exc |-> "InvalidSocketException", rc |-> 0]
    ELSE PollLoop(strategy, T, 0, env, 1)

(***************************************************************************)
(* The environments tried: times in half quanta, at most MaxIntr signals   *)
(* at increasing times after the start of the call.                        *)
(***************************************************************************)
EnvTimes == {k * (Quantum \div 2) : k \in 0..(2 * MaxQuanta)}

EnvSignals ==
    {<<>>} \cup {<<a>> : a \in EnvTimes \ {0}}
           \cup {p \in (EnvTimes \ {0}) \X EnvTimes : p[1] < p[2]}

PollEnvs == [ready : EnvTimes \cup {Never}, signals : EnvSignals,
             fail : {"none"}]
            \cup {[NoEnv EXCEPT !.fail = "ENOMEM"]}

(***************************************************************************)
(* A poll of handle h, with its registration succeeding, in environment    *)
(* env on the build's strategy.                                            *)
(***************************************************************************)
PollIn(h, T, env) ==
    /\ Idle
    /\ Live(h)
    /\ LET r == PollRun(pollStrategy, sockfd[h], T, env)
       IN  last' = [Ret("pollIn", h, r.exc, r.rc, <<>>)
                    EXCEPT !.T = T, !.env = env]
    /\ UNCHANGED <<buildVars, handleVars, osVars, histVars, pc, call>>

InitStrategy == InitBuild({"unix"}, PollStrategies, {FALSE}) /\ InitRest

NextStrategy ==
    \/ \E h \in PollHandles : Construct(h)
    \/ \E h \in PollHandles, sd \in Fds \cup {POCO_INVALID_SOCKET},
          err \in SocketErrors : InitSocket(h, sd, err)
    \/ \E h \in PollHandles, T \in TimeoutValues, env \in PollEnvs :
            PollIn(h, T, env)

SpecStrategy == InitStrategy /\ [][NextStrategy]_vars

(***************************************************************************)
(* SocketImpl::connectNB(address): the lazy init (::socket answers a new   *)
(* descriptor sd, or fails with serr and init raises), then                *)
(* setBlocking(ConnectNBMode), which raises on a descriptor that is not    *)
(* open, then one ::connect, which answers crc ("ENOERR" for rc = 0): a    *)
(* code other than EINPROGRESS and EWOULDBLOCK is raised through           *)
(* error(err, address).                                                    *)
(***************************************************************************)
ConnectNBModeBlocking == TRUE

ConnectNBMode == FALSE

ConnectNBExc(crc) ==
    IF crc \in {"ENOERR", "EINPROGRESS", "EWOULDBLOCK"} THEN NoExc
    ELSE error(crc)

ConnectNB(h) ==
    /\ Idle
    /\ Live(h)
    /\ \E sd \in SocketResults, serr \in SocketErrors, crc \in ConnectResults :
        LET needInit == sockfd[h] = POCO_INVALID_SOCKET
            fd == IF needInit THEN sd ELSE sockfd[h]
            sys0 == IF needInit THEN <<"socket">> ELSE <<>>
            open == IF needInit THEN osOpen \cup ({sd} \cap Fds) ELSE osOpen
        IN  /\ needInit \/ sd = POCO_INVALID_SOCKET
            /\ IF fd = POCO_INVALID_SOCKET
               THEN /\ crc = "ENOERR"
                    /\ last' = Ret("connectNB", h, error(serr), 0, sys0)
                    /\ UNCHANGED <<sockfd, blocking, osVars, held>>
               ELSE IF fd \notin open
               THEN /\ crc = "ENOERR"
                    /\ last' = Ret("connectNB", h, error(BadDescriptor), 0,
                                   sys0 \o SetBlockingSys(FALSE))
                    /\ UNCHANGED <<sockfd, blocking, osVars, held>>
               ELSE /\ sockfd' = [sockfd EXCEPT ![h] = fd]
                    /\ held' = [held EXCEPT ![h] = @ \cup {fd}]
                    /\ osOpen' = open
                    /\ osTimeo' = IF needInit
                                  THEN [osTimeo EXCEPT ![fd] = NoTimeo]
                                  ELSE osTimeo
                    /\ blocking' = [blocking EXCEPT ![h] = ConnectNBMode]
                    /\ osNonblock' = [osNonblock EXCEPT ![fd] = ~ConnectNBMode]
                    /\ last' = [Ret("connectNB", h, ConnectNBExc(crc), 0,
                                    sys0 \o SetBlockingSys(TRUE) \o <<"connect">>)
                                EXCEPT !.res = crc]
    /\ UNCHANGED <<buildVars, hstate, sndTimeout, recvTimeout, orphans,
                   closedOnce, overClosed, callerError, pc, call>>

(***************************************************************************)
(* Connecting without a wait, between the operations that set the          *)
(* handle's descriptor and mode.                                           *)
(***************************************************************************)
InitConnect == InitBuild(Platforms, {"epoll"}, BOOLEAN) /\ InitRest

NextConnect ==
    \/ \E h \in PollHandles : Construct(h)
    \/ \E h \in PollHandles, sd \in Fds \cup {POCO_INVALID_SOCKET},
          err \in SocketErrors : InitSocket(h, sd, err)
    \/ \E h \in PollHandles : Close(h)
    \/ \E h \in PollHandles, flag \in BOOLEAN : SetBlocking(h, flag)
    \/ \E h \in PollHandles : ConnectNB(h)

SpecConnect == InitConnect /\ [][NextConnect]_vars

(***************************************************************************)
(* SocketImpl::receiveBytes(Poco::Buffer<char>&, flags, timeout): a poll   *)
(* for SELECT_READ, and when it reports ready available(), the resize up,  *)
(* the receive loop, what follows it and the resize down.  When the poll   *)
(* reports not ready the call returns its rc = 0.                          *)
(***************************************************************************)
BufSizes == 0..MaxBuf

AsSizeT(rc) == rc % (2 ^ SizeBits)

GrowToAvail(size, avail) == avail

GrowTo(size, avail) == IF size < AsSizeT(avail) THEN avail ELSE size

ShrinkTo(size, rc) == IF AsSizeT(rc) < size THEN rc ELSE size

AvailResults(fd) == IF fd \in osOpen THEN {"ENOERR"} ELSE {BadDescriptor}

ReceiveBufBegin(h, T, size0, setup) ==
    /\ Idle
    /\ Live(h)
    /\ T \in TimeoutValues
    /\ size0 \in BufSizes
    /\ setup \in (IF pollStrategy = "epoll" /\ sockfd[h] # POCO_INVALID_SOCKET
                  THEN PollSetups ELSE {"ok"})
    /\ LET exc == PollSetupExc(sockfd[h], setup)
           sys == IF sockfd[h] = POCO_INVALID_SOCKET THEN <<>> ELSE PollSetupSys(setup)
           c == [Frame("receiveBytesBuf", h, sockfd[h], blocking[h], T,
                       {"SELECT_READ"}, sys)
                 EXCEPT !.buf = [NoBuf EXCEPT !.size0 = size0, !.atRead = size0,
                                              !.size = size0]]
       IN  IF exc # NoExc
           THEN /\ last' = Done(c, exc, 0)
                /\ UNCHANGED <<pc, call>>
           ELSE /\ pc' = "poll_wait"
                /\ call' = c
                /\ last' = InCall(c)
    /\ UNCHANGED <<buildVars, handleVars, osVars, histVars>>

(***************************************************************************)
(* "int rc = 0; if (poll(timeout, SELECT_READ)) { ... } return rc;": a     *)
(* poll that reports not ready skips the block and the call returns.       *)
(***************************************************************************)
NotReadyTimeout == "TimeoutException"

NotReadyExc == NoExc

ReceiveBufAfterPoll ==
    /\ pc = "poll_ret"
    /\ call.op = "receiveBytesBuf"
    /\ IF PollExc(call) # NoExc
       THEN last' = Done(call, PollExc(call), 0)
       ELSE IF ~PollReady(call)
       THEN last' = Done(call, NotReadyExc, 0)
       ELSE \E ares \in AvailResults(call.fd0), avail \in BufSizes :
              LET c1 == [call EXCEPT !.sys = Append(@, "ioctl")]
                  size1 == GrowTo(call.buf.size, avail)
                  blk == blocking[call.h]
              IN  IF ares # "ENOERR"
                  THEN /\ avail = 0
                       /\ last' = Done(c1, error(ares), 0)
                  ELSE \E k \in 0..MaxIntr, res \in TransferResults(call.fd0),
                          n \in BufSizes :
                         LET exc == TransferExc("receiveBytes", blk, res)
                             rc == TransferRc(res, n)
                             c2 == [c1 EXCEPT
                                      !.sys = @ \o Rep("recv", k + 1),
                                      !.buf.avail = avail,
                                      !.buf.atRead = size1,
                                      !.buf.size = IF exc = NoExc
                                                   THEN ShrinkTo(size1, rc)
                                                   ELSE size1]
                         IN  /\ Retries("receiveBytes", blk, k, res)
                             /\ IF res = "ok" THEN n <= size1 ELSE n = 0
                             /\ last' = [Done(c2, exc, rc) EXCEPT !.res = res]
    /\ pc' = "idle"
    /\ call' = NoCall
    /\ UNCHANGED <<buildVars, handleVars, osVars, histVars>>

InitRecv == InitBuild({"unix"}, {"epoll"}, {FALSE}) /\ InitRest

NextRecv ==
    \/ \E h \in PollHandles : Construct(h)
    \/ \E h \in PollHandles, sd \in Fds \cup {POCO_INVALID_SOCKET},
          err \in SocketErrors : InitSocket(h, sd, err)
    \/ \E h \in PollHandles, flag \in BOOLEAN : SetBlocking(h, flag)
    \/ \E h \in PollHandles, T \in TimeoutValues, size0 \in BufSizes,
          setup \in PollSetups : ReceiveBufBegin(h, T, size0, setup)
    \/ PollInterrupted
    \/ \E out \in PollOutcomes : PollFinished(out)
    \/ ReceiveBufAfterPoll

SpecRecv == InitRecv /\ [][NextRecv]_vars

(***************************************************************************)
(* bind and bind6 (builds with POCO_HAS_UNIX_SOCKET, POCO_HAVE_IPv6 and    *)
(* IPV6_V6ONLY).  SO_REUSEPORT is a macro of the Unix headers.             *)
(***************************************************************************)
Families == {"IPv4", "IPv6", "UNIX_LOCAL"}

OptionResults == {"ENOERR", "ENOPROTOOPT", "EINVAL"}

BindResults == {"ENOERR", "EADDRINUSE"}

HaveReusePort == platform = "unix"

(***************************************************************************)
(* The exception classes "catch (const IOException&)" catches: IOException *)
(* and the classes derived from it.  InvalidArgumentException is a         *)
(* LogicException and TimeoutException a RuntimeException.                 *)
(***************************************************************************)
IOExceptions == {"IOException", "NetException", "InvalidSocketException",
                 "ConnectionAbortedException", "ConnectionResetException",
                 "ConnectionRefusedException"}

setRawOption(res) == [exc |-> error(res), sys |-> <<"setsockopt">>]

setReuseAddress(res) ==
    IF platform = "windows" /\ res = "ENOERR"
    THEN [exc |-> NoExc, sys |-> <<"setsockopt", "setsockopt">>]
    ELSE setRawOption(res)

setReusePort(res) ==
    IF ~HaveReusePort THEN [exc |-> NoExc, sys |-> <<>>]
    ELSE LET r == setRawOption(res)
         IN  [exc |-> IF r.exc \in IOExceptions THEN NoExc ELSE r.exc,
              sys |-> <<"setsockopt_SO_REUSEPORT">>]

(***************************************************************************)
(* The calls of bind / bind6 after init(), in order, up to the first that  *)
(* raises: q is the sequence of the calls' results that remain.            *)
(***************************************************************************)
RECURSIVE Chain(_, _)
Chain(q, sys) ==
    IF q = <<>> THEN [exc |-> NoExc, sys |-> sys]
    ELSE IF Head(q).exc # NoExc
    THEN [exc |-> Head(q).exc, sys |-> sys \o Head(q).sys]
    ELSE Chain(Tail(q), sys \o Head(q).sys)

OsBind(brc) == [exc |-> error(brc), sys |-> <<"bind">>]

BindCalls(family, raRes, rpRes, brc) ==
    (IF family # "UNIX_LOCAL"
     THEN <<setReuseAddress(raRes), setReusePort(rpRes)>> ELSE <<>>)
    \o <<OsBind(brc)>>

Bind6Calls(v6Res, raRes, rpRes, brc) ==
    <<setRawOption(v6Res), setReuseAddress(raRes), setReusePort(rpRes),
      OsBind(brc)>>

BindOp(op, h, family, calls) ==
    /\ Idle
    /\ Live(h)
    /\ \E sd \in SocketResults, serr \in SocketErrors :
        LET needInit == sockfd[h] = POCO_INVALID_SOCKET
            fd == IF needInit THEN sd ELSE sockfd[h]
            sys0 == IF needInit THEN <<"socket">> ELSE <<>>
        IN  /\ needInit \/ sd = POCO_INVALID_SOCKET
            /\ IF op = "bind6" /\ family # "IPv6"
               THEN /\ sd = POCO_INVALID_SOCKET
                    /\ last' = Ret(op, h, "InvalidArgumentException", 0, <<>>)
                    /\ UNCHANGED <<sockfd, osVars, held>>
               ELSE IF fd = POCO_INVALID_SOCKET
               THEN /\ last' = Ret(op, h, error(serr), 0, sys0)
                    /\ UNCHANGED <<sockfd, osVars, held>>
               ELSE LET r == Chain(calls, sys0)
                    IN  /\ fd \in osOpen \/ needInit
                        /\ sockfd' = [sockfd EXCEPT ![h] = fd]
                        /\ held' = [held EXCEPT ![h] = @ \cup {fd}]
                        /\ osOpen' = osOpen \cup {fd}
                        /\ osTimeo' = IF needInit
                                      THEN [osTimeo EXCEPT ![fd] = NoTimeo]
                                      ELSE osTimeo
                        /\ osNonblock' = IF needInit
                                         THEN [osNonblock EXCEPT ![fd] = FALSE]
                                         ELSE osNonblock
                        /\ last' = Ret(op, h, r.exc, 0, r.sys)
    /\ UNCHANGED <<buildVars, hstate, blocking, sndTimeout, recvTimeout,
                   orphans, closedOnce, overClosed, callerError, pc, call>>

Bind(h) ==
    \E family \in Families, raRes \in OptionResults, rpRes \in OptionResults,
       brc \in BindResults :
        BindOp("bind", h, family, BindCalls(family, raRes, rpRes, brc))

Bind6(h) ==
    \E family \in Families, v6Res \in OptionResults, raRes \in OptionResults,
       rpRes \in OptionResults, brc \in BindResults :
        BindOp("bind6", h, family, Bind6Calls(v6Res, raRes, rpRes, brc))

InitBind == InitBuild(Platforms, {"epoll"}, {FALSE}) /\ InitRest

NextBind ==
    \/ \E h \in PollHandles : Construct(h)
    \/ \E h \in PollHandles, sd \in Fds \cup {POCO_INVALID_SOCKET},
          err \in SocketErrors : InitSocket(h, sd, err)
    \/ \E h \in PollHandles : Close(h)
    \/ \E h \in PollHandles, flag \in BOOLEAN : SetBlocking(h, flag)
    \/ \E h \in PollHandles : Bind(h)
    \/ \E h \in PollHandles : Bind6(h)

SpecBind == InitBind /\ [][NextBind]_vars

(***************************************************************************)
(* Two threads on one handle: one inside receiveBytes, one inside          *)
(* sendBytes, their steps interleaved.  While they run, call holds the     *)
(* handle, the polling contexts open at the OS (ctxs) and per thread its   *)
(* position, its polling context, the OS calls it issued, what its poll    *)
(* (out) and its last syscall (res) answered and its outcome.  errno is    *)
(* per thread.                                                             *)
(***************************************************************************)
ThreadNames == {"recv", "send"}

ThreadOp(th) == IF th = "recv" THEN "receiveBytes" ELSE "sendBytes"

Thread0(th) ==
    [op |-> ThreadOp(th), pc |-> "start", ctx |-> 0, sys |-> <<>>,
     exc |-> NoExc, rc |-> 0, out |-> "none", res |-> "none", nintr |-> 0]

ThreadsBegin(h) ==
    /\ Idle
    /\ Live(h)
    /\ pc' = "threads"
    /\ call' = [op |-> "threads", h |-> h, ctxs |-> {},
                thr |-> [th \in ThreadNames |-> Thread0(th)]]
    /\ last' = Ret("threads", h, Pending, 0, <<>>)
    /\ UNCHANGED <<buildVars, handleVars, osVars, histVars>>

ThreadDone(t, exc, rc) == [t EXCEPT !.pc = "done", !.exc = exc, !.rc = rc]

(***************************************************************************)
(* epoll_create(1) in poll: a new polling context, a local of the call.    *)
(* The OS hands out the lowest descriptor that is free.                    *)
(***************************************************************************)
PollContextShared(ctxs) == 1

PollContext(ctxs) ==
    CHOOSE id \in 1..2 : id \notin ctxs /\ \A j \in 1..2 : j \notin ctxs => id <= j

(***************************************************************************)
(* The start of a thread's call: "if (_blocking) checkBrokenTimeout(mode)" *)
(* up to the wait, the poll's test of _sockfd, epoll_create and epoll_ctl  *)
(* included.                                                               *)
(***************************************************************************)
ThreadStart(th) ==
    /\ pc = "threads"
    /\ call.thr[th].pc = "start"
    /\ LET h == call.h
           t == call.thr[th]
       IN  IF ~PollsFirst(h, t.op)
           THEN call' = [call EXCEPT !.thr[th].pc = "loop"]
           ELSE IF sockfd[h] = POCO_INVALID_SOCKET
           THEN call' = [call EXCEPT
                           !.thr[th] = ThreadDone(t, "InvalidSocketException", 0)]
           ELSE LET ctx == PollContext(call.ctxs)
                IN  call' = [call EXCEPT
                               !.ctxs = @ \cup {ctx},
                               !.thr[th].pc = "poll_wait",
                               !.thr[th].ctx = ctx,
                               !.thr[th].sys = @ \o PollSetupSys("ok")]
    /\ UNCHANGED <<buildVars, handleVars, osVars, histVars, pc, last>>

(***************************************************************************)
(* A wait of a thread's poll on its polling context: interrupted and       *)
(* issued again, or the last one, after which the context is closed.  A    *)
(* wait on a context that is no longer open fails with EBADF.              *)
(***************************************************************************)
ThreadWait(th) ==
    /\ pc = "threads"
    /\ call.thr[th].pc = "poll_wait"
    /\ LET t == call.thr[th]
           t1 == [t EXCEPT !.sys = Append(@, WaitSys)]
           t2 == [t1 EXCEPT !.sys = @ \o PollTeardown]
       IN  IF t.ctx \notin call.ctxs
           THEN call' = [call EXCEPT
                           !.thr[th] = ThreadDone([t2 EXCEPT !.out = "EBADF"],
                                                  error("EBADF"), 0)]
           ELSE \E out \in PollOutcomes \cup {"EINTR"} :
                  IF out = "EINTR"
                  THEN /\ t.nintr < MaxIntr
                       /\ call' = [call EXCEPT
                                     !.thr[th] = [t1 EXCEPT !.nintr = @ + 1]]
                  ELSE call' =
                         [call EXCEPT
                            !.ctxs = @ \ {t.ctx},
                            !.thr[th] =
                               CASE out = "timeout" ->
                                      ThreadDone([t2 EXCEPT !.out = out],
                                                 "TimeoutException", 0)
                                 [] out = "ready" ->
                                      [t2 EXCEPT !.out = out, !.pc = "loop"]
                                 [] OTHER ->
                                      ThreadDone([t2 EXCEPT !.out = out],
                                                 error(out), 0)]
    /\ UNCHANGED <<buildVars, handleVars, osVars, histVars, pc, last>>

(***************************************************************************)
(* A pass of a thread's transfer loop: the test of _sockfd and the         *)
(* syscall, re-issued when interrupted on a blocking handle, and what      *)
(* follows the loop.                                                       *)
(***************************************************************************)
ThreadSyscall(th) ==
    /\ pc = "threads"
    /\ call.thr[th].pc = "loop"
    /\ LET h == call.h
           t == call.thr[th]
           t1 == [t EXCEPT !.sys = Append(@, TransferSys(t.op))]
       IN  IF sockfd[h] = POCO_INVALID_SOCKET
           THEN call' = [call EXCEPT
                           !.thr[th] = ThreadDone(t, "InvalidSocketException", 0)]
           ELSE \E res \in TransferResults(sockfd[h]), n \in ByteCounts :
                  /\ res # "ok" => n = 0
                  /\ IF blocking[h] /\ res = "EINTR"
                     THEN /\ t.nintr < MaxIntr
                          /\ call' = [call EXCEPT
                                        !.thr[th] = [t1 EXCEPT !.nintr = @ + 1]]
                     ELSE call' = [call EXCEPT
                                     !.thr[th] =
                                        ThreadDone([t1 EXCEPT !.res = res],
                                                   TransferExc(t.op, blocking[h], res),
                                                   TransferRc(res, n))]
    /\ UNCHANGED <<buildVars, handleVars, osVars, histVars, pc, last>>

ThreadsEnd ==
    /\ pc = "threads"
    /\ \A th \in ThreadNames : call.thr[th].pc = "done"
    /\ pc' = "idle"
    /\ call' = NoCall
    /\ last' = Ret("threads", call.h, NoExc, 0, <<>>)
    /\ UNCHANGED <<buildVars, handleVars, osVars, histVars>>

InitThreads == InitBuild({"unix"}, {"epoll"}, BOOLEAN) /\ InitRest

NextThreads ==
    \/ \E h \in IOHandles : Construct(h)
    \/ \E h \in IOHandles, sd \in Fds \cup {POCO_INVALID_SOCKET},
          err \in SocketErrors : InitSocket(h, sd, err)
    \/ \E h \in IOHandles, flag \in BOOLEAN : SetBlocking(h, flag)
    \/ \E h \in IOHandles, timeout \in IOTimeouts :
            SetSendTimeout(h, timeout, "ok")
    \/ \E h \in IOHandles, timeout \in IOTimeouts :
            SetReceiveTimeout(h, timeout, "ok")
    \/ \E h \in IOHandles : ThreadsBegin(h)
    \/ \E th \in ThreadNames : ThreadStart(th)
    \/ \E th \in ThreadNames : ThreadWait(th)
    \/ \E th \in ThreadNames : ThreadSyscall(th)
    \/ ThreadsEnd

SpecThreads == InitThreads /\ [][NextThreads]_vars

(***************************************************************************)
(* Claims about the lifecycle, checked under SpecLife.                     *)
(***************************************************************************)

\* C5: close() never raises and leaves the handle's descriptor at the unset
\* sentinel; a close() on a handle whose descriptor is already the sentinel
\* issues no OS close and changes no handle and no descriptor; a close()
\* closes at most the descriptor of its own handle and changes no other handle.
C5_CloseIdempotent ==
    [][\A h \in Handles :
         (last'.op = "close" /\ last'.h = h) =>
            /\ last'.exc = NoExc
            /\ sockfd'[h] = POCO_INVALID_SOCKET
            /\ (sockfd[h] = POCO_INVALID_SOCKET =>
                   /\ last'.sys = <<>>
                   /\ UNCHANGED <<handleVars, osVars>>)
            /\ \A g \in Handles \ {h} :
                   /\ sockfd'[g] = sockfd[g]
                   /\ blocking'[g] = blocking[g]
                   /\ hstate'[g] = hstate[g]
            /\ osOpen' \subseteq osOpen
            /\ (osOpen \ osOpen') \subseteq {sockfd[h]}]_vars

\* C5 witness: a close() on a handle that an earlier close() already
\* closed, while another live handle holds an open descriptor.
C5_Witness ==
    /\ last.op = "close"
    /\ last.fd0 = POCO_INVALID_SOCKET
    /\ closedOnce[last.h]
    /\ \E g \in Handles \ {last.h} : Live(g) /\ sockfd[g] \in osOpen

\* C6 as stated: every descriptor a destroyed handle has owned was closed
\* by it exactly once, none left open and none closed twice.
C6_Original ==
    \A h \in Handles :
        hstate[h] = "dead" => (held[h] = {} /\ ~overClosed)

\* C6 as amended: a destroyed handle holds the sentinel, and it has closed
\* exactly once every descriptor it has owned, except the descriptors that
\* reset() overwrote while the handle still held them, which it never closes.
C6_DestroyClosesOnce ==
    \A h \in Handles :
        hstate[h] = "dead" =>
            /\ sockfd[h] = POCO_INVALID_SOCKET
            /\ held[h] \subseteq orphans
            /\ ~overClosed

\* C6 witness: a destructor that has just closed the descriptor its handle
\* held.
C6_Witness ==
    /\ last.op = "~SocketImpl"
    /\ last.fd0 \in Fds
    /\ last.sys = <<"close">>
    /\ hstate[last.h] = "dead"
    /\ held[last.h] = {}

C9_AssertOwned ==
    [][\A h \in Handles :
         (/\ last'.op \in {"initSocket", "useFileDescriptor"}
          /\ last'.h = h
          /\ sockfd[h] # POCO_INVALID_SOCKET) =>
            /\ last'.exc = "AssertionViolationException"
            /\ last'.sys = <<>>
            /\ UNCHANGED <<handleVars, osVars>>]_vars

\* C9 witness: init(af) has failed its assertion on a handle that holds an
\* open descriptor, while a descriptor the OS could have handed out is free.
C9_Witness ==
    /\ last.op = "initSocket"
    /\ last.exc = "AssertionViolationException"
    /\ sockfd[last.h] \in osOpen
    /\ Fds \ osOpen # {}

(***************************************************************************)
(* Claims about poll and connect with a timeout, checked under SpecPoll.   *)
(***************************************************************************)
InSeq(x, q) == \E i \in 1..Len(q) : q[i] = x

\* C1 as stated: when connect(address, timeout) has returned or raised, the
\* handle's blocking mode is the mode it had before the call.
C1_Original ==
    (last.op = "connect" /\ last.exc # Pending)
        => blocking[last.h] = last.blk0

\* C2: within one invocation of poll the time spent in the waits never adds
\* up to more than the caller's timeout; a wait lasts no longer than the
\* remaining time; after an interrupted wait the remaining time is the
\* previous remaining time less the time waited, clamped at zero, so it
\* never grows and is never negative; the first wait has the whole timeout.
C2_PollBudget ==
    [][/\ (pc # "poll_wait" /\ pc' = "poll_wait") =>
            (call'.remainingTime = call'.T /\ call'.t = 0)
       /\ pc = "poll_wait" =>
            LET waited == call'.t - call.t
            IN  /\ waited >= 0
                /\ waited <= call.remainingTime
                /\ call'.t <= call'.T
                /\ call'.T = call.T
                /\ pc' = "poll_wait" =>
                      /\ call'.remainingTime >= 0
                      /\ call'.remainingTime <= call.remainingTime
                      /\ call'.remainingTime =
                            (IF call.remainingTime - waited > 0
                             THEN call.remainingTime - waited ELSE 0)]_vars

\* C2 witness: a poll with a positive timeout whose waits were interrupted
\* at least twice has run to its timeout, the waits adding up to the timeout.
C2_Witness ==
    /\ pc = "poll_ret"
    /\ call.nintr >= 2
    /\ call.out = "timeout"
    /\ call.T > 0
    /\ call.t = call.T

\* C3 as stated: a poll with timeout T > 0 that returns "not ready" does so
\* after a total wait t with T <= t < 2T.
C3_Original ==
    (last.op = "poll" /\ last.exc = NoExc /\ last.rc = 0 /\ last.T > 0)
        => (last.T <= last.t /\ last.t < 2 * last.T)

\* C4 as stated: connect(address, timeout) raises Timeout for a poll that
\* timed out only when at least T has elapsed since the wait began.
C4_Original ==
    (/\ last.op = "connect"
     /\ last.exc = "TimeoutException"
     /\ InSeq(WaitSys, last.sys)
     /\ ~InSeq("getsockopt", last.sys))
        => last.t >= last.T

(***************************************************************************)
(* Claims about the data and control operations, checked under SpecIO.     *)
(***************************************************************************)

DataControlOps ==
    TransferForms \cup ControlOps \cup {"poll", "available", "setBlocking"}

\* C8: every data or control operation (send/receive in all forms,
\* sendUrgent, poll, available, listen, shutdown, the address queries,
\* option get/set, the blocking-mode toggle) called on a handle whose
\* descriptor is unset raises InvalidSocketException and has issued no OS
\* call.  As stated by the claim.
C8_Original ==
    (/\ last.op \in DataControlOps
     /\ last.exc # Pending
     /\ last.fd0 = POCO_INVALID_SOCKET)
        => (last.exc = "InvalidSocketException" /\ last.sys = <<>>)

\* C10: on a handle in non-blocking mode, a send or receive, in any form,
\* whose syscall answers would-block (EAGAIN / EWOULDBLOCK) raises nothing
\* and returns a negative value, and one whose syscall answers any other
\* error code raises.  As stated by the claim.
C10_Original ==
    (/\ last.op \in TransferForms
     /\ last.exc # Pending
     /\ ~last.blk0
     /\ last.res \notin {"none", "ok"})
        => IF last.res \in {"EAGAIN", "EWOULDBLOCK"}
           THEN last.exc = NoExc /\ last.rc < 0
           ELSE last.exc # NoExc

\* C11: no send or receive, in any form, no sendUrgent and no poll, on a
\* handle in blocking or in non-blocking mode, ends by raising an exception
\* for a syscall that answered EINTR.  As stated by the claim, for the
\* operations of SpecIO.
C11_Original ==
    (/\ last.op \in TransferForms \cup {"sendUrgent", "poll"}
     /\ last.exc # Pending
     /\ last.res = "EINTR")
        => last.exc = NoExc

\* C12: a send or receive, in any form, on a handle in blocking mode whose
\* syscall fails with EAGAIN or ETIMEDOUT raises TimeoutException, and one
\* whose syscall fails with any other code raises the kind error(code)
\* gives for that code.  As stated by the claim.
C12_Original ==
    (/\ last.op \in TransferForms
     /\ last.exc # Pending
     /\ last.blk0
     /\ last.res \notin {"none", "ok"})
        => IF last.res \in {"EAGAIN", "ETIMEDOUT"}
           THEN last.exc = "TimeoutException"
           ELSE last.exc = error(last.res)

\* C13: with timeout emulation active (_isBrokenTimeout, a stored timeout
\* that is not zero), every send or receive, in any form, on a handle in
\* blocking mode with a descriptor ends after a poll with the stored
\* timeout of its direction (or after the set-up of that poll raised); a
\* poll that reported not ready ends the call with TimeoutException and
\* without a transfer syscall, and a poll that reported ready is followed
\* by the transfer syscall.  As stated by the claim.
C13_Original ==
    [][(/\ pc' = "idle"
        /\ last'.op \in TransferForms
        /\ last'.exc # Pending
        /\ last'.blk0
        /\ last'.fd0 # POCO_INVALID_SOCKET
        /\ isBrokenTimeout
        /\ CheckTimeout(last'.h, last'.op) # 0)
          => \/ /\ pc = "poll_ret"
                /\ call.T = CheckTimeout(last'.h, last'.op)
                /\ call.mode = {CheckMode(last'.op)}
                /\ (PollExc(call) = NoExc /\ ~PollReady(call))
                      => (last'.exc = "TimeoutException" /\ last'.res = "none")
                /\ PollReady(call) => last'.res # "none"
             \/ /\ pc = "idle"
                /\ last'.exc # NoExc
                /\ last'.res = "none"]_vars

(***************************************************************************)
(* Claims about the timeout setters and getters, checked under SpecTimeo.  *)
(***************************************************************************)
Returned(op) == last'.op = op /\ last'.exc = NoExc

\* C14: with timeout emulation active (_isBrokenTimeout), a setter that
\* returns leaves its argument in the handle, only a setter changes the
\* stored value, and a getter that returns gives the stored value, whatever
\* the OS option holds; with emulation inactive, no step writes the stored
\* values, a setter that returns has written its argument to the OS option
\* and a getter that returns gives what the OS option holds (in the
\* option's unit: whole milliseconds on Windows).
C14_TimeoutEmulation ==
    [][LET h == last'.h
           fd == sockfd[h]
       IN  IF isBrokenTimeout
           THEN /\ Returned("setSendTimeout") => sndTimeout'[h] = last'.T
                /\ Returned("setReceiveTimeout") => recvTimeout'[h] = last'.T
                /\ sndTimeout' # sndTimeout => Returned("setSendTimeout")
                /\ recvTimeout' # recvTimeout => Returned("setReceiveTimeout")
                /\ Returned("getSendTimeout") => last'.rc = sndTimeout[h]
                /\ Returned("getReceiveTimeout") => last'.rc = recvTimeout[h]
           ELSE /\ sndTimeout' = sndTimeout
                /\ recvTimeout' = recvTimeout
                /\ Returned("setSendTimeout")
                      => osTimeo'[fd].snd = ToNative(last'.T)
                /\ Returned("setReceiveTimeout")
                      => osTimeo'[fd].rcv = ToNative(last'.T)
                /\ Returned("getSendTimeout")
                      => last'.rc = FromNative(osTimeo[fd].snd)
                /\ Returned("getReceiveTimeout")
                      => last'.rc = FromNative(osTimeo[fd].rcv)]_vars

\* C14 witness: under emulation a getter has returned a stored timeout that
\* differs from what the OS option of the descriptor holds.
C14_Witness ==
    /\ isBrokenTimeout
    /\ ~brokenTimeouts
    /\ last.op = "getSendTimeout"
    /\ last.exc = NoExc
    /\ last.rc > 0
    /\ sockfd[last.h] # POCO_INVALID_SOCKET
    /\ last.rc # FromNative(osTimeo[sockfd[last.h]].snd)


(***************************************************************************)
(* Claims about sendFile, checked under SpecFile.                          *)
(***************************************************************************)

\* C15: sendFile on a handle in non-blocking mode raises a local error
\* (NetException) at once: it reads and seeks no file, issues no socket
\* syscall and puts no byte on the socket.
C15_NonBlockingRefused ==
    (last.op = "sendFile" /\ ~last.blk0)
        => /\ last.exc = "NetException"
           /\ last.sys = <<>>
           /\ last.file.wire = <<>>
           /\ last.file.path = "none"

C15_Witness ==
    /\ last.op = "sendFile" /\ ~last.blk0 /\ last.exc = "NetException"
    /\ last.fd0 \in osOpen /\ last.file.size > 0

\* C16: on a handle whose transport reports itself encrypted (secure() is
\* true) sendFile takes the chunked path and never calls the zero-copy
\* primitive (sendfile, TransmitFile), for every offset and count, on every
\* build, while the call runs and when it has ended.
C16_SecureNeverZeroCopy ==
    /\ (pc = "sendfile" /\ isSecure[call.h])
            => /\ call.file.path = "blockwise"
               /\ ~InSeq("sendfile", call.sys)
               /\ ~InSeq("TransmitFile", call.sys)
    /\ (last.op = "sendFile" /\ isSecure[last.h])
            => /\ last.file.path # "native"
               /\ last.blk0 => last.file.path = "blockwise"
               /\ ~InSeq("sendfile", last.sys)
               /\ ~InSeq("TransmitFile", last.sys)

C16_Witness ==
    /\ last.op = "sendFile" /\ isSecure[last.h] /\ haveSendfile
    /\ last.exc = NoExc /\ last.file.path = "blockwise"
    /\ InSeq("send", last.sys) /\ Len(last.file.wire) > 1

\* C17: a sendFile that returns has put on the socket exactly the bytes asked
\* for, on the zero-copy and on the chunked path: the whole file for offset 0
\* and count 0, and for a count K > 0 (of a K the file holds from offset) the
\* K bytes that start at offset.
C17_Original ==
    (last.op = "sendFile" /\ last.exc = NoExc)
        => LET f == last.file
           IN  /\ (f.offset0 = 0 /\ f.count0 = 0) => f.wire = Span(0, f.size)
               /\ (f.count0 > 0 /\ f.offset0 + f.count0 <= f.size)
                    => f.wire = Span(f.offset0, f.offset0 + f.count0)

\* C18: a sendFile that returns on one path has put the same bytes on the
\* socket and returns the same total as the sendFile of the same file, offset
\* and count that returned on the other path, also when single zero-copy or
\* send calls moved fewer bytes than they were given (stated of a count the
\* file holds from offset).
C18_Original ==
    (/\ last.op = "sendFile" /\ last.exc = NoExc
     /\ last.file.offset0 + last.file.count0 <= last.file.size
     /\ last.file.before.path \notin {"none", last.file.path})
        => /\ last.file.wire = last.file.before.wire
           /\ last.rc = last.file.before.rc

\* C19: sendFileBlockwise returns the number of bytes moved to the socket:
\* the sum of the byte counts its sendBytes calls accepted, also when a
\* sendBytes call accepted fewer bytes than it was given.
C19_Original ==
    (last.op = "sendFile" /\ last.exc = NoExc /\ last.file.path = "blockwise")
        => last.rc = Len(last.file.wire)

(***************************************************************************)
(* Claims about error(), checked under SpecError.                          *)
(***************************************************************************)
ErrorKinds == {"NetException", "IOException", "InvalidArgumentException",
               "ConnectionAbortedException", "ConnectionResetException",
               "TimeoutException", "ConnectionRefusedException"}

\* C20: error(code, arg) is a pure total mapping: the no-error code returns
\* without raising, every other code raises one error kind, and two calls
\* with the same code and arg raise the same kind with the same message,
\* whatever handle they are called from, whatever its state and whatever
\* was called before; the call changes no state.
C20_ErrorPure ==
    [][last'.op = "error"
        => /\ (last'.res = "ENOERR")
                => (last'.exc = NoExc /\ last'.err.msg = NoMessage)
           /\ (last'.res # "ENOERR") => last'.exc \in ErrorKinds
           /\ UNCHANGED <<handleVars, osVars>>
           /\ (/\ last.op = "error" /\ last.res = last'.res
               /\ last.err.arg = last'.err.arg)
                => (last'.exc = last.exc /\ last'.err.msg = last.err.msg)]_vars

C20_Witness ==
    /\ last.op = "error" /\ last.res = "ECONNREFUSED"
    /\ last.exc = "ConnectionRefusedException"
    /\ last.err.arg = "host:80" /\ last.err.msg.shown = "host:80"
    /\ sockfd[last.h] = POCO_INVALID_SOCKET
    /\ \E g \in Handles : sockfd[g] \in osOpen /\ ~blocking[g]

(***************************************************************************)
(* Claims about the poll strategies, checked under SpecStrategy.           *)
(***************************************************************************)

\* C21: the three poll strategies behave alike: a poll with a timeout and a
\* mask, in an environment (readiness, signals, wait failure), returns on
\* the build's strategy the boolean, or raises the error, that each of the
\* epoll, poll and select strategies gives for them.
C21_Original ==
    last.op = "pollIn"
        => \A strategy \in PollStrategies :
              PollRun(strategy, last.fd0, last.T, last.env)
                  = [exc |-> last.exc, rc |-> last.rc]

(***************************************************************************)
(* Claims about connectNB, checked under SpecConnect.                      *)
(***************************************************************************)

\* C22 as stated: connectNB leaves the handle in non-blocking mode on every
\* exit path; an in-progress or would-block connect result returns
\* normally, any other non-zero result is raised at once, with no poll or
\* wait.
C22_Original ==
    last.op = "connectNB"
        => /\ ~blocking[last.h]
           /\ last.res \in {"EINPROGRESS", "EWOULDBLOCK"} => last.exc = NoExc
           /\ last.res \notin {"none", "ENOERR", "EINPROGRESS", "EWOULDBLOCK"}
                => last.exc = error(last.res)
           /\ ~InSeq("epoll_wait", last.sys)

\* C22 as amended: a connectNB that reaches its ::connect leaves the handle
\* in non-blocking mode (flag and descriptor), whether it returns or raises;
\* an in-progress or would-block connect result returns normally, any other
\* non-zero result is raised at once, after exactly one ::connect and no
\* poll or wait.  A connectNB whose lazy init or whose setBlocking(false)
\* raises issues no ::connect and leaves the mode as it was.
C22_ConnectNB ==
    [][last'.op = "connectNB"
        => LET h == last'.h
           IN  IF InSeq("connect", last'.sys)
               THEN /\ ~blocking'[h]
                    /\ sockfd'[h] \in osOpen' /\ osNonblock'[sockfd'[h]]
                    /\ last'.res \in {"ENOERR", "EINPROGRESS", "EWOULDBLOCK"}
                         => last'.exc = NoExc
                    /\ last'.res \notin {"ENOERR", "EINPROGRESS", "EWOULDBLOCK"}
                         => last'.exc = error(last'.res) /\ last'.exc # NoExc
                    /\ \A i \in 1..Len(last'.sys) :
                          /\ last'.sys[i] \in {"socket", "fcntl", "ioctlsocket",
                                                "connect"}
                          /\ last'.sys[i] = "connect" => i = Len(last'.sys)
               ELSE /\ last'.exc # NoExc
                    /\ UNCHANGED <<blocking, osNonblock>>]_vars

C22_Witness ==
    /\ last.op = "connectNB" /\ last.blk0 /\ last.res = "ECONNREFUSED"
    /\ last.exc = "ConnectionRefusedException"
    /\ ~blocking[last.h] /\ osNonblock[sockfd[last.h]]

(***************************************************************************)
(* Claims about two threads on one handle, checked under SpecThreads.      *)
(***************************************************************************)

(***************************************************************************)
(* The outcome of a thread's call is one the call has when it runs alone:  *)
(* what its own poll and its own syscall answered decide it.               *)
(***************************************************************************)
SequentialOutcome(h, t) ==
    \/ /\ t.out = "timeout" /\ t.res = "none"
       /\ t.exc = "TimeoutException"
    \/ /\ t.out = "ENOMEM" /\ t.res = "none"
       /\ t.exc = error("ENOMEM")
    \/ /\ sockfd[h] = POCO_INVALID_SOCKET /\ t.res = "none"
       /\ t.exc = "InvalidSocketException"
    \/ /\ t.out \in {"none", "ready"} /\ t.res # "none"
       /\ t.exc = TransferExc(t.op, blocking[h], t.res)
       /\ (t.exc = NoExc /\ t.res = "ok") => t.rc >= 0

ThreadsSafe ==
    /\ \A th \in ThreadNames :
          LET t == call.thr[th]
          IN  /\ t.pc = "poll_wait" => t.ctx \in call.ctxs
              /\ t.pc = "done" => SequentialOutcome(call.h, t)
    /\ (\A th \in ThreadNames : call.thr[th].pc = "poll_wait")
            => call.thr["recv"].ctx # call.thr["send"].ctx

\* C23: with one thread inside receiveBytes and another inside sendBytes on
\* the same handle, in every interleaving no step of either writes a handle
\* field (descriptor, blocking flag, stored timeouts), each poll waits on a
\* polling context of its own that is open until it closes it itself, and
\* each call ends with an outcome it has when run alone.
C23_ThreadsSafe ==
    [][/\ pc = "threads" => UNCHANGED handleVars
       /\ pc' = "threads" => ThreadsSafe']_vars

C23_Witness ==
    /\ pc = "threads"
    /\ \A th \in ThreadNames :
          /\ call.thr[th].pc = "done" /\ call.thr[th].out = "ready"
          /\ call.thr[th].exc = NoExc /\ call.thr[th].res = "ok"
    /\ call.thr["recv"].ctx # call.thr["send"].ctx

(***************************************************************************)
(* Claims about bind and bind6, checked under SpecBind.                    *)
(***************************************************************************)

\* C24: in bind and bind6, whatever error the OS returns for setting the
\* reuse-port option, setReusePort does not raise and the call goes on to
\* the OS bind.
C24_Original ==
    (/\ last.op \in {"bind", "bind6"}
     /\ InSeq("setsockopt_SO_REUSEPORT", last.sys))
        => InSeq("bind", last.sys)

(***************************************************************************)
(* Claims about the transfer loops, checked under SpecIO.                  *)
(***************************************************************************)

\* C25: a send or receive, in any form, that reaches its transfer syscall on
\* a handle in blocking mode does not end on a syscall that answered EINTR
\* (it issues the syscall again), and on a handle in non-blocking mode it
\* issues the syscall exactly once whatever the answer.  As stated by the
\* claim.
C25_Original ==
    (/\ last.op \in TransferForms
     /\ last.exc # Pending
     /\ last.res # "none")
        => IF last.blk0
           THEN last.res # "EINTR"
           ELSE LET IsTransfer(x) == x = TransferSys(last.op)
                IN  Len(SelectSeq(last.sys, IsTransfer)) = 1

(***************************************************************************)
(* Claims about connect with a timeout after its wait, checked under       *)
(* SpecPoll.                                                               *)
(***************************************************************************)

\* C26: in connect(address, timeout), after ::connect has answered
\* in-progress and the poll has waited: when the poll times out the call
\* raises TimeoutException and SO_ERROR is not read; when the poll reports
\* ready SO_ERROR is read, the call returns only if it is zero and otherwise
\* raises what error() gives for it.
C26_ConnectPending ==
    [][(pc = "poll_ret" /\ call.op = "connect") =>
         CASE call.out = "timeout" ->
                /\ last'.exc = "TimeoutException"
                /\ ~InSeq("getsockopt", last'.sys)
           [] call.out = "ready" ->
                /\ InSeq("getsockopt", last'.sys)
                /\ last'.res \in SocketErrorResults
                /\ (last'.exc = NoExc) <=> (last'.res = "ENOERR")
                /\ last'.exc = error(last'.res)
           [] OTHER -> TRUE]_vars

C26_Witness ==
    /\ last.op = "connect"
    /\ last.rc = 1
    /\ InSeq("getsockopt", last.sys)
    /\ last.res = "ECONNREFUSED"
    /\ last.exc = "ConnectionRefusedException"

(***************************************************************************)
(* Claims about the polling context, checked under SpecPoll.               *)
(***************************************************************************)

(***************************************************************************)
(* The OS calls of a finished call leave no polling context: a context     *)
(* exists once epoll_create has succeeded, which is when epoll_ctl is      *)
(* issued, and it is closed once, after the last call that uses it.        *)
(***************************************************************************)
ContextTornDown(sys) ==
    LET Closes == {i \in 1..Len(sys) : sys[i] = "close_epoll"}
        Uses == {i \in 1..Len(sys) : sys[i] \in {"epoll_ctl", "epoll_wait"}}
    IN  /\ Cardinality(Closes) = (IF Uses # {} THEN 1 ELSE 0)
        /\ \A i \in Closes, j \in Uses : j < i

\* C29: when a poll, called alone or by connect(address, timeout), has
\* returned or raised (ready, timeout, registration failure, wait failure),
\* the polling context it created has been closed, once and after its last
\* use; and a wait that failed with a code other than EINTR makes the poll
\* raise what error() gives for the code instead of returning a boolean.
C29_PollTeardown ==
    [][/\ (last'.op \in {"poll", "connect"} /\ last'.exc # Pending)
            => ContextTornDown(last'.sys)
       /\ (pc = "poll_ret" /\ call.out \notin {"ready", "timeout"})
            => (last'.exc = error(call.out) /\ last'.exc # NoExc)]_vars

C29_Witness ==
    /\ last.op = "poll"
    /\ pollStrategy = "epoll"
    /\ last.exc = error("ENOMEM")
    /\ InSeq("epoll_wait", last.sys)
    /\ last.sys[Len(last.sys)] = "close_epoll"

(***************************************************************************)
(* Claims about the mode connect with a timeout leaves, checked under      *)
(* SpecPoll.                                                               *)
(***************************************************************************)

\* C30: when connect(address, timeout) has entered its try block (it has
\* issued ::connect) and has returned or raised, the handle's blocking flag
\* is true and its descriptor is in blocking mode at the OS, whatever the
\* mode was before the call.
C30_ConnectLeavesBlocking ==
    (/\ last.op = "connect"
     /\ last.exc # Pending
     /\ InSeq("connect", last.sys))
        => /\ blocking[last.h]
           /\ sockfd[last.h] \in osOpen
           /\ ~osNonblock[sockfd[last.h]]

C30_Witness ==
    /\ last.op = "connect"
    /\ last.exc = "TimeoutException"
    /\ ~last.blk0
    /\ InSeq("connect", last.sys)
    /\ blocking[last.h]

(***************************************************************************)
(* Claims about the caller's address in receiveFrom, checked under SpecIO. *)
(***************************************************************************)

\* C28: receiveFrom, in its single-buffer and its scatter/gather form,
\* assigns the caller's address only when the receive has returned a count
\* of zero or more; when the call raises or returns the would-block outcome
\* the caller's address is unchanged.
C28_AddressOnlyOnReceive ==
    (last.op \in {"receiveFrom", "receiveFromVec"} /\ last.exc # Pending)
        => /\ last.addr = "peer" => (last.exc = NoExc /\ last.rc >= 0)
           /\ (last.exc # NoExc \/ last.rc < 0) => last.addr = NoAddr

C28_Witness ==
    /\ last.op = "receiveFromVec"
    /\ last.exc = NoExc
    /\ last.rc < 0
    /\ last.res = "EWOULDBLOCK"
    /\ last.addr = NoAddr

(***************************************************************************)
(* Claims about receiveBytes(buffer, flags, timeout), checked under        *)
(* SpecRecv.                                                               *)
(***************************************************************************)

\* C27: in receiveBytes(buffer, flags, timeout), once the poll has reported
\* readable and available() has answered: the buffer's size at the read is
\* its size at the call, or the available count when that is larger (it is
\* never smaller than at the call); and when the call returns n >= 0 the
\* last receive it issued is the one that succeeded, every receive before
\* it was interrupted, and the buffer's size is n.
C27_ReceiveBuffer ==
    (/\ last.op = "receiveBytesBuf"
     /\ last.exc # Pending
     /\ InSeq("recv", last.sys))
        => /\ last.buf.atRead >= last.buf.size0
           /\ last.buf.atRead = (IF last.buf.size0 < last.buf.avail
                                 THEN last.buf.avail ELSE last.buf.size0)
           /\ (last.exc = NoExc /\ last.rc >= 0)
                => /\ last.res = "ok"
                   /\ last.sys[Len(last.sys)] = "recv"
                   /\ last.buf.size = last.rc

C27_Witness ==
    /\ last.op = "receiveBytesBuf"
    /\ last.exc = NoExc
    /\ last.buf.size0 = 0
    /\ last.buf.avail = 2
    /\ last.rc = 1
    /\ last.buf.size = 1

\* C33: when the poll of receiveBytes(buffer, flags, timeout) times out, the
\* call raises nothing and returns 0, it has issued neither available()'s
\* ioctl nor a receive, and the buffer has the size it had at the call: the
\* value returned is the one a receive of zero bytes returns.
C33_TimeoutReturnsZero ==
    [][(pc = "poll_ret" /\ call.op = "receiveBytesBuf" /\ call.out = "timeout")
         => /\ last'.exc = NoExc
            /\ last'.rc = 0
            /\ last'.rc = TransferRc("ok", 0)
            /\ ~InSeq("ioctl", last'.sys)
            /\ ~InSeq("recv", last'.sys)
            /\ last'.buf.size = call.buf.size0
            /\ last'.buf.atRead = call.buf.size0]_vars

C33_Witness ==
    /\ last.op = "receiveBytesBuf"
    /\ last.exc = NoExc
    /\ last.rc = 0
    /\ last.T > 0
    /\ InSeq(WaitSys, last.sys)
    /\ ~InSeq("recv", last.sys)
    /\ last.buf.size0 = MaxBuf
    /\ last.buf.size = MaxBuf

(***************************************************************************)
(* Claims about the termination of sendFile, checked under SpecFileFair.   *)
(***************************************************************************)

\* C32: a call of sendFileNative that is inside its loop, for any file size,
\* offset and count, leaves the loop: the call returns or raises.  As
\* stated by the claim.
C32_Original ==
    (pc = "sendfile" /\ call.file.path = "native") ~> (pc = "idle")

(***************************************************************************)
(* Claims about the blocking flag and the descriptor's mode, checked under *)
(* SpecConnect.                                                            *)
(***************************************************************************)

\* C31: in every reachable state, a live handle that owns an open descriptor
\* has its blocking flag equal to the blocking mode of that descriptor at
\* the OS.  As stated by the claim, for setBlocking, connectNB, close and
\* the lazy re-creation of the descriptor.
C31_Original ==
    \A h \in Handles :
        (Live(h) /\ sockfd[h] \in osOpen)
            => (blocking[h] <=> ~osNonblock[sockfd[h]])

=============================================================================
